---- MODULE Spec2Model ----
(***************************************************************************)
(* A model of the identifier registry, the filename classifier, the        *)
(* date-to-age transform, the record anonymizers and the validator of      *)
(* imaging archives of imagen_databank.                                    *)
(*                                                                         *)
(* Text is a sequence of one-character strings.  A Python dict is a        *)
(* sequence of <<key, value>> pairs with distinct keys, in insertion       *)
(* order (iteration order of a dict is its insertion order).               *)
(***************************************************************************)
EXTENDS Integers, Sequences, FiniteSets, TLC

(***************************************************************************)
(* State                                                                   *)
(***************************************************************************)
VARIABLES
    \* core.py, _initialize_psc1_dawba_psc2 and the module-level dicts
    reg_status,         \* "loading", "loaded" or the exception raised
    reg_file,           \* 1: _PSC2PSC, 2: _PSC2PSC_STRATIFY
    reg_read,           \* lines read so far, in order
    psc2_from_psc1,     \* local dict of _initialize_psc1_dawba_psc2
    psc1_from_dawba,    \* local dict of _initialize_psc1_dawba_psc2
    reg_log,            \* messages logged while loading
    PSC2_FROM_PSC1,     \* module-level dicts, set once loading returned
    PSC1_FROM_DAWBA,
    PSC2_FROM_DAWBA,
    PSC1_FROM_PSC2,
    \* core.py, _initialize_dob and the module-level dicts
    dob_status,         \* "loading", "loaded" or the exception raised
    dob_file,           \* 1: _DOB, 2: _DOB_STRATIFY
    dob_read,           \* lines read so far, in order
    dob_from_psc1,      \* local dict of _initialize_dob
    DOB_FROM_PSC1,      \* module-level dicts, set once loading returned
    DOB_FROM_PSC2,
    \* the de-identification scripts
    handler,            \* the function at work on a file, "none" outside
    header,             \* the columns of the file at work
    rec_in,             \* <<>> or <<r>>: the last record read
    rec_out,            \* <<>> or <<r>>: what was written for it
    rec_log,            \* the messages logged for it
    anon_status,        \* "idle", "running" or the exception raised
    timestamp,          \* <<>> or <<t>>: the local 'timestamp' of the function
    n_done,             \* records read from the file at work
    pending,            \* <<key, identifier>> of the rows kept for writing
    written,            \* the identifiers of the rows written, in order
    \* additional_data.py, _match_additional_data_sops
    cls_filename,       \* <<>> or <<name>>: the filename classified
    cls_exact,          \* the exact argument
    cls_result,         \* <<>> before the call, then <<tag>>
    \* sanity/imaging.py, check_zip_content, and the MRI script, deidentify
    unit,               \* "none", "check_zip_content" or "deidentify"
    zip_status,         \* "idle", "running", "returned" or the exception raised
    zip_pc,             \* the statement the unit of work is at
    zip_args,           \* the arguments of the call
    ziptree,            \* the ZipTree read from the archive
    zip_todo,           \* the uppermost folders the loop has yet to visit
    zip_dir,            \* the uppermost folder at work
    zip_files,          \* the files the loop at work has yet to visit
    error_list,         \* the Error objects so far, in order
    subject_ids,        \* the identifiers found so far
    actual_tests,       \* the local actual_tests of _check_scanning
    tempdirs,           \* the temporary directories that exist
    extracted,          \* the files extracted from the archive, in order
    \* the scripts that list the datasets and hand them to a pool
    job,                \* "none" or the function at work: "dataset_BL", ...
    job_args,           \* its arguments, path being the directory listed
    job_status,         \* "idle", "listing", "mapping", "returned" or the exception
    listing,            \* what os.listdir has yet to give, in its order
    datasets,           \* the local dict datasets of the function that lists
    todo_list,          \* the list handed to pool.map
    results,            \* what each call of the worker function has come to
    opened,             \* the datasets the workers have opened
    \* the functions of the library called on their own
    call,               \* the function called last, "none" before the first call
    call_args,          \* its arguments
    call_result,        \* what it returned or yielded
    \* the locale of the process
    locale,             \* the name of the locale in force, LC_ALL
    installed           \* the names of the locales the system has

regvars == <<reg_status, reg_file, reg_read, psc2_from_psc1, psc1_from_dawba,
             reg_log, PSC2_FROM_PSC1, PSC1_FROM_DAWBA, PSC2_FROM_DAWBA,
             PSC1_FROM_PSC2>>

dobvars == <<dob_status, dob_file, dob_read, dob_from_psc1, DOB_FROM_PSC1,
             DOB_FROM_PSC2>>

anonvars == <<handler, header, rec_in, rec_out, rec_log, anon_status,
              timestamp, n_done, pending, written>>

clsvars == <<cls_filename, cls_exact, cls_result>>

zipvars == <<unit, zip_status, zip_pc, zip_args, ziptree, zip_todo, zip_dir,
             zip_files, error_list, subject_ids, actual_tests, tempdirs,
             extracted>>

jobvars == <<job, job_args, job_status, listing, datasets, todo_list, results,
             opened>>

callvars == <<call, call_args, call_result>>

localevars == <<locale, installed>>

vars == <<regvars, dobvars, anonvars, clsvars, zipvars, jobvars, callvars, localevars>>

\* what the actions of one component leave alone
RegOthers == <<dobvars, anonvars, clsvars, zipvars, jobvars, callvars, localevars>>

DobOthers == <<regvars, anonvars, clsvars, zipvars, jobvars, callvars, localevars>>

AnonOthers == <<regvars, dobvars, clsvars, zipvars, jobvars, callvars, localevars>>

ClsOthers == <<regvars, dobvars, anonvars, zipvars, jobvars, callvars, localevars>>

ZipOthers == <<regvars, dobvars, anonvars, clsvars, jobvars, callvars, localevars>>

JobOthers == <<regvars, dobvars, anonvars, clsvars, zipvars, callvars, localevars>>

CallOthers == <<regvars, dobvars, anonvars, clsvars, zipvars, jobvars, localevars>>

LocaleOthers == <<regvars, dobvars, anonvars, clsvars, zipvars, jobvars>>

(***************************************************************************)
(* Python dict                                                             *)
(***************************************************************************)
DictKeys(d) == {d[i][1] : i \in 1..Len(d)}

DictHas(d, k) == k \in DictKeys(d)

DictGet(d, k) == d[CHOOSE i \in 1..Len(d) : d[i][1] = k][2]

\* d[k] = v that never replaces a value already stored
DictSetIfAbsent(d, k, v) ==
    IF DictHas(d, k) THEN d ELSE Append(d, <<k, v>>)

\* d[k] = v
DictSet(d, k, v) ==
    IF DictHas(d, k)
    THEN [i \in 1..Len(d) |-> IF d[i][1] = k THEN <<k, v>> ELSE d[i]]
    ELSE Append(d, <<k, v>>)

RECURSIVE DictInvert(_)
\* {v: k for k, v in d.items()}
DictInvert(d) ==
    IF d = <<>> THEN <<>>
    ELSE LET n == Len(d)
         IN  DictSet(DictInvert(SubSeq(d, 1, n - 1)), d[n][2], d[n][1])

(***************************************************************************)
(* Text                                                                    *)
(***************************************************************************)
Digits == {"0", "1", "2", "3", "4", "5", "6", "7", "8", "9"}

DigitSeq == <<"0", "1", "2", "3", "4", "5", "6", "7", "8", "9">>

LowerSeq == <<"a","b","c","d","e","f","g","h","i","j","k","l","m",
              "n","o","p","q","r","s","t","u","v","w","x","y","z">>

UpperSeq == <<"A","B","C","D","E","F","G","H","I","J","K","L","M",
              "N","O","P","Q","R","S","T","U","V","W","X","Y","Z">>

Lower == {LowerSeq[i] : i \in 1..26}

Upper == {UpperSeq[i] : i \in 1..26}

\* the characters \w matches
WordChars == Lower \cup Upper \cup Digits \cup {"_"}

\* the two cases of a character
BothCases(c) ==
    IF c \in Lower THEN {c, UpperSeq[CHOOSE i \in 1..26 : LowerSeq[i] = c]}
    ELSE IF c \in Upper THEN {c, LowerSeq[CHOOSE i \in 1..26 : UpperSeq[i] = c]}
    ELSE {c}

\* str.upper() of one character
UpperChar(c) ==
    IF c \in Lower THEN UpperSeq[CHOOSE i \in 1..26 : LowerSeq[i] = c] ELSE c

\* str.isdigit()
IsDigits(s) == Len(s) > 0 /\ \A i \in 1..Len(s) : s[i] \in Digits

DigitVal(c) == (CHOOSE i \in 1..10 : DigitSeq[i] = c) - 1

RECURSIVE StrToInt(_)
\* int(s) of a string of digits
StrToInt(s) ==
    IF s = <<>> THEN 0
    ELSE 10 * StrToInt(SubSeq(s, 1, Len(s) - 1)) + DigitVal(s[Len(s)])

RECURSIVE NatToStr(_)
NatToStr(n) ==
    IF n < 10 THEN <<DigitSeq[n + 1]>>
    ELSE Append(NatToStr(n \div 10), DigitSeq[(n % 10) + 1])

\* str(n) of an integer
IntToStr(n) == IF n < 0 THEN <<"-">> \o NatToStr(-n) ELSE NatToStr(n)

\* s[:n] and s[n:] of Python
Prefix(s, n) == SubSeq(s, 1, IF n < Len(s) THEN n ELSE Len(s))

Suffix(s, n) == SubSeq(s, n + 1, Len(s))

\* sub in s
Contains(s, sub) ==
    \E i \in 1..(Len(s) - Len(sub) + 1) : SubSeq(s, i, i + Len(sub) - 1) = sub

\* s.startswith(t), s[:len(t)] == t
StartsWith(s, t) == Len(s) >= Len(t) /\ SubSeq(s, 1, Len(t)) = t

(***************************************************************************)
(* Regular expressions: re.compile(...) is a tree, regex.match(s) asks     *)
(* whether some prefix of s is matched.                                    *)
(***************************************************************************)
ReSet(cs) == [t |-> "set", cs |-> cs]

ReSeq(rs) == [t |-> "seq", rs |-> rs]

ReOpt(r) == [t |-> "opt", r |-> r]

RePlus(r) == [t |-> "plus", r |-> r]

ReStar(r) == ReOpt(RePlus(r))

ReAlt(rs) == [t |-> "alt", rs |-> rs]

\* r{n}
ReRep(r, n) == ReSeq([i \in 1..n |-> r])

\* a literal string, and a literal string under re.IGNORECASE
ReLit(s) == ReSeq([i \in 1..Len(s) |-> ReSet({s[i]})])

ReLitI(s) == ReSeq([i \in 1..Len(s) |-> ReSet(BothCases(s[i]))])

RECURSIVE MatchEnds(_, _, _)
\* the positions at which a match of r starting at position i of s may end
MatchEnds(r, s, i) ==
    CASE r.t = "set" ->
            IF i <= Len(s) /\ s[i] \in r.cs THEN {i + 1} ELSE {}
      [] r.t = "seq" ->
            IF r.rs = <<>> THEN {i}
            ELSE UNION {MatchEnds(ReSeq(Tail(r.rs)), s, j) :
                            j \in MatchEnds(Head(r.rs), s, i)}
      [] r.t = "opt" -> {i} \cup MatchEnds(r.r, s, i)
      [] r.t = "alt" ->
            UNION {MatchEnds(r.rs[k], s, i) : k \in 1..Len(r.rs)}
      [] r.t = "plus" ->
            LET first == {j \in MatchEnds(r.r, s, i) : j > i}
            IN  first \cup UNION {MatchEnds(r, s, j) : j \in first}

\* regex.match(s) is not None
ReMatch(r, s) == MatchEnds(r, s, 1) # {}

\* regex.fullmatch(s) is not None
ReFullMatch(r, s) == (Len(s) + 1) \in MatchEnds(r, s, 1)

(***************************************************************************)
(* Calendar: datetime.date                                                 *)
(***************************************************************************)
IsLeap(y) == (y % 4 = 0) /\ ((y % 100 # 0) \/ (y % 400 = 0))

DaysInMonth(y, m) ==
    IF m = 2 THEN (IF IsLeap(y) THEN 29 ELSE 28)
    ELSE IF m \in {4, 6, 9, 11} THEN 30 ELSE 31

\* datetime.date(y, m, d) does not raise ValueError
ValidDate(y, m, d) ==
    /\ y >= 1 /\ y <= 9999
    /\ m >= 1 /\ m <= 12
    /\ d >= 1 /\ d <= DaysInMonth(y, m)

RECURSIVE DaysBeforeMonth(_, _)
DaysBeforeMonth(y, m) ==
    IF m = 1 THEN 0 ELSE DaysBeforeMonth(y, m - 1) + DaysInMonth(y, m - 1)

DaysBeforeYear(y) ==
    LET p == y - 1 IN p * 365 + (p \div 4) - (p \div 100) + (p \div 400)

\* date.toordinal(): the difference of two dates in days is the difference
\* of their ordinals
ToOrdinal(date) ==
    DaysBeforeYear(date[1]) + DaysBeforeMonth(date[1], date[2]) + date[3]

\* (a - b).days of two dates
DateDiffDays(a, b) == ToOrdinal(a) - ToOrdinal(b)

(***************************************************************************)
(* Identifiers                                                             *)
(***************************************************************************)
CodeA == <<"0","1","2","3","4","5","6","7","8","9","0","1">>
CodeB == <<"0","9","8","7","6","5","4","3","2","1","0","0">>
CodeC == <<"0","2","0","0","0","0","0","0","0","0","0","2">>

\* 12-digit codes; internal and public codes share one namespace of strings
Codes == {CodeA, CodeB, CodeC}

TokenA == <<"t","1">>
TokenB == <<"t","2">>
Tokens == {TokenA, TokenB}

\* the literal header line PSC1=DAWBA=PSC2, split
HeaderLine == << <<"P","S","C","1">>, <<"D","A","W","B","A">>, <<"P","S","C","2">> >>

\* a line with a single field: the unpacking of split('=') fails
ShortLine == << CodeA >>

\* line.strip('\n').split('=') of the lines a mapping file may hold
RegLines ==
    {<<p, t, q>> : p \in Codes, t \in Tokens, q \in Codes}
        \cup {HeaderLine, ShortLine}

\* lines read over the two mapping files
MaxLines == 3

RegInit ==
    /\ reg_status = "loading"
    /\ reg_file = 1
    /\ reg_read = <<>>
    /\ psc2_from_psc1 = <<>>
    /\ psc1_from_dawba = <<>>
    /\ reg_log = <<>>
    /\ PSC2_FROM_PSC1 = <<>>
    /\ PSC1_FROM_DAWBA = <<>>
    /\ PSC2_FROM_DAWBA = <<>>
    /\ PSC1_FROM_PSC2 = <<>>

\* the key the duplicate test looks up in psc2_from_psc1: the public code
DuplicateTestKey(psc1, psc2) == psc2

\* a token store that keeps the value already stored
TokenStoreFirstWins(d, dawba, psc1) == DictSetIfAbsent(d, dawba, psc1)

\* psc1_from_dawba[dawba] = psc1
TokenStore(d, dawba, psc1) == DictSet(d, dawba, psc1)

\* the body of the loop over the lines of a mapping file, for one line:
\* st holds the locals of _initialize_psc1_dawba_psc2
RegStep(st, line) ==
    IF Len(line) # 3
    THEN \* psc1, dawba, psc2 = ... : wrong number of values to unpack
         [st EXCEPT !.status = "ValueError"]
    ELSE LET psc1 == line[1]
             dawba == line[2]
             psc2 == line[3]
         IN  IF line = HeaderLine
             THEN st
             ELSE IF DictHas(st.psc2_from_psc1, DuplicateTestKey(psc1, psc2))
             THEN IF ~DictHas(st.psc2_from_psc1, psc1)
                  THEN \* psc2_from_psc1[psc1] of a missing key
                       [st EXCEPT !.status = "KeyError"]
                  ELSE IF DictGet(st.psc2_from_psc1, psc1) # psc2
                  THEN [st EXCEPT
                          !.status = "InconsistentMapping",
                          !.log = Append(@, "inconsistent PSC1/PSC2 mapping")]
                  ELSE [st EXCEPT
                          !.psc1_from_dawba = TokenStore(@, dawba, psc1)]
             ELSE [st EXCEPT
                     !.psc2_from_psc1 = DictSet(@, psc1, psc2),
                     !.psc1_from_dawba = TokenStore(@, dawba, psc1)]

RegReadLine(line) ==
    /\ reg_status = "loading"
    /\ Len(reg_read) < MaxLines
    /\ reg_read' = Append(reg_read, line)
    /\ LET st == RegStep([status |-> reg_status,
                          psc2_from_psc1 |-> psc2_from_psc1,
                          psc1_from_dawba |-> psc1_from_dawba,
                          log |-> reg_log], line)
       IN  /\ reg_status' = st.status
           /\ psc2_from_psc1' = st.psc2_from_psc1
           /\ psc1_from_dawba' = st.psc1_from_dawba
           /\ reg_log' = st.log
    /\ UNCHANGED <<reg_file, PSC2_FROM_PSC1, PSC1_FROM_DAWBA, PSC2_FROM_DAWBA,
                   PSC1_FROM_PSC2>>
    /\ UNCHANGED RegOthers

\* end of the first mapping file: the loop opens the second one
RegNextFile ==
    /\ reg_status = "loading"
    /\ reg_file = 1
    /\ reg_file' = 2
    /\ UNCHANGED <<reg_status, reg_read, psc2_from_psc1, psc1_from_dawba,
                   reg_log, PSC2_FROM_PSC1, PSC1_FROM_DAWBA, PSC2_FROM_DAWBA,
                   PSC1_FROM_PSC2>>
    /\ UNCHANGED RegOthers

\* PSC2_FROM_DAWBA = {k: PSC2_FROM_PSC1[v] for k, v in ... if v in PSC2_FROM_PSC1}
RECURSIVE Psc2FromDawba(_, _)
Psc2FromDawba(dawba_dict, psc2_dict) ==
    IF dawba_dict = <<>> THEN <<>>
    ELSE LET n == Len(dawba_dict)
             rest == Psc2FromDawba(SubSeq(dawba_dict, 1, n - 1), psc2_dict)
         IN  IF DictHas(psc2_dict, dawba_dict[n][2])
             THEN DictSet(rest, dawba_dict[n][1], DictGet(psc2_dict, dawba_dict[n][2]))
             ELSE rest

\* end of the second mapping file: the function returns and the module-level
\* dictionaries are derived
RegReturn ==
    /\ reg_status = "loading"
    /\ reg_file = 2
    /\ reg_status' = "loaded"
    /\ PSC2_FROM_PSC1' = psc2_from_psc1
    /\ PSC1_FROM_DAWBA' = psc1_from_dawba
    /\ PSC2_FROM_DAWBA' = Psc2FromDawba(psc1_from_dawba, psc2_from_psc1)
    /\ PSC1_FROM_PSC2' = DictInvert(psc2_from_psc1)
    /\ UNCHANGED <<reg_file, reg_read, psc2_from_psc1, psc1_from_dawba, reg_log>>
    /\ UNCHANGED RegOthers

RECURSIVE RegFold(_)
\* the locals of _initialize_psc1_dawba_psc2 after the lines given
RegFold(lines) ==
    IF lines = <<>>
    THEN [status |-> "loading", psc2_from_psc1 |-> <<>>,
          psc1_from_dawba |-> <<>>, log |-> <<>>]
    ELSE LET st == RegFold(SubSeq(lines, 1, Len(lines) - 1))
         IN  IF st.status = "loading" THEN RegStep(st, lines[Len(lines)])
             ELSE st

\* the state of the module once the mapping files, holding the lines given,
\* have been loaded
RegistryLoadedFrom(lines) ==
    LET st == RegFold(lines)
    IN  /\ st.status = "loading"
        /\ reg_status = "loaded"
        /\ reg_file = 2
        /\ reg_read = lines
        /\ psc2_from_psc1 = st.psc2_from_psc1
        /\ psc1_from_dawba = st.psc1_from_dawba
        /\ reg_log = st.log
        /\ PSC2_FROM_PSC1 = st.psc2_from_psc1
        /\ PSC1_FROM_DAWBA = st.psc1_from_dawba
        /\ PSC2_FROM_DAWBA = Psc2FromDawba(st.psc1_from_dawba, st.psc2_from_psc1)
        /\ PSC1_FROM_PSC2 = DictInvert(st.psc2_from_psc1)

DobA == <<"1","9","9","7","-","0","3","-","0","1">>

DobC == <<"1","9","9","0","-","0","1","-","0","1">>

\* mapping files: one subject; two subjects, the internal code of one being
\* the public code of the other
RegistryChoices ==
    { <<HeaderLine, <<CodeA, TokenA, CodeB>> >>,
      << <<CodeC, TokenB, CodeA>>, <<CodeA, TokenA, CodeB>> >> }

(***************************************************************************)
(* Dates of birth: _initialize_dob                                         *)
(***************************************************************************)
\* _REGEX_DOB = re.compile(r'(\d{4})-(\d{2})-(\d{2})')
REGEX_DOB ==
    ReSeq(<<ReRep(ReSet(Digits), 4), ReLit(<<"-">>), ReRep(ReSet(Digits), 2),
            ReLit(<<"-">>), ReRep(ReSet(Digits), 2)>>)

DOB_YEAR_MIN == 1989

DOB_YEAR_MAX == 2012

\* a window test that forgets the lower bound
YearUnexpectedNoFloor(year) == year > DOB_YEAR_MAX

\* year > 2012 or year < 1989
YearUnexpected(year) == year > DOB_YEAR_MAX \/ year < DOB_YEAR_MIN

\* the date-of-birth fields the tables may hold
DobStrings ==
    {<<"1","9","9","7","-","0","3","-","0","1">>, <<"1","9","8","9","-","0","1","-","0","1">>, <<"2","0","1","2","-","1","2","-","3","1">>,
     <<"1","9","8","8","-","1","2","-","3","1">>, <<"2","0","1","3","-","0","1","-","0","1">>,
     <<"1","9","9","7","-","1","3","-","0","1">>, <<"1","9","9","7","-","0","2","-","3","0">>,
     <<"1","9","9","7","-","3","-","0","1">>, <<"0","1","/","0","3","/","1","9","9","7">>, <<>>,
     <<"1","9","9","7","-","0","3","-","0","1","x">>}

WhenField == <<"2","0","1","0">>

\* a line with two fields only: the unpacking of split(',') fails
ShortDobLine == <<CodeA, <<"1","9","9","7","-","0","3","-","0","1">>>>

\* line.strip('\n').split(',') of the lines a date-of-birth file may hold
DobLines ==
    {<<p, d, WhenField>> : p \in {CodeA, CodeB}, d \in DobStrings}
        \cup {ShortDobLine}

\* lines read over the two date-of-birth files
MaxDobLines == 3

DobInit ==
    /\ dob_status = "loading"
    /\ dob_file = 1
    /\ dob_read = <<>>
    /\ dob_from_psc1 = <<>>
    /\ DOB_FROM_PSC1 = <<>>
    /\ DOB_FROM_PSC2 = <<>>

\* the body of the loop over the lines of a date-of-birth file, for one
\* line: st holds the locals of _initialize_dob
DobStep(st, line) ==
    IF Len(line) # 3
    THEN \* psc1, dob, dummy_when = ... : wrong number of values to unpack
         [st EXCEPT !.status = "ValueError"]
    ELSE LET psc1 == line[1]
             dob == line[2]
         IN  IF ReMatch(REGEX_DOB, dob)
             THEN LET year == StrToInt(SubSeq(dob, 1, 4))
                      month == StrToInt(SubSeq(dob, 6, 7))
                      day == StrToInt(SubSeq(dob, 9, 10))
                  IN  IF YearUnexpected(year)
                      THEN [st EXCEPT !.status = "Exception"]
                      ELSE IF ~ValidDate(year, month, day)
                      THEN \* datetime.date(year, month, day)
                           [st EXCEPT !.status = "ValueError"]
                      ELSE [st EXCEPT !.dob_from_psc1 =
                                DictSet(@, psc1, <<year, month, day>>)]
             ELSE [st EXCEPT !.status = "Exception"]

DobReadLine(line) ==
    /\ dob_status = "loading"
    /\ Len(dob_read) < MaxDobLines
    /\ dob_read' = Append(dob_read, line)
    /\ LET st == DobStep([status |-> dob_status,
                          dob_from_psc1 |-> dob_from_psc1], line)
       IN  /\ dob_status' = st.status
           /\ dob_from_psc1' = st.dob_from_psc1
    /\ UNCHANGED <<dob_file, DOB_FROM_PSC1, DOB_FROM_PSC2>>
    /\ UNCHANGED DobOthers

\* end of the first date-of-birth file: the loop opens the second one
DobNextFile ==
    /\ dob_status = "loading"
    /\ dob_file = 1
    /\ dob_file' = 2
    /\ UNCHANGED <<dob_status, dob_read, dob_from_psc1, DOB_FROM_PSC1,
                   DOB_FROM_PSC2>>
    /\ UNCHANGED DobOthers

RECURSIVE DobFromPsc2(_, _)
\* DOB_FROM_PSC2 = {PSC2_FROM_PSC1[k]: v for k, v in DOB_FROM_PSC1.items()
\*                  if k in PSC2_FROM_PSC1}
DobFromPsc2(dob_dict, psc2_dict) ==
    IF dob_dict = <<>> THEN <<>>
    ELSE LET n == Len(dob_dict)
             rest == DobFromPsc2(SubSeq(dob_dict, 1, n - 1), psc2_dict)
         IN  IF DictHas(psc2_dict, dob_dict[n][1])
             THEN DictSet(rest, DictGet(psc2_dict, dob_dict[n][1]), dob_dict[n][2])
             ELSE rest

\* end of the second date-of-birth file: the function returns and the
\* module-level dictionaries are set
DobReturn ==
    /\ dob_status = "loading"
    /\ dob_file = 2
    /\ dob_status' = "loaded"
    /\ DOB_FROM_PSC1' = dob_from_psc1
    /\ DOB_FROM_PSC2' = DobFromPsc2(dob_from_psc1, PSC2_FROM_PSC1)
    /\ UNCHANGED <<dob_file, dob_read, dob_from_psc1>>
    /\ UNCHANGED DobOthers

(***************************************************************************)
(* Filename classifier: additional_data.py                                 *)
(***************************************************************************)
CANTAB_CCLAR == "cantab"

DETAILED_DATASHEET_CSV == "detailed_datasheet"

DATASHEET_CSV == "datasheet"

REPORT_HTML == "report"

FT_CSV == "ft"

MID_CSV == "mid"

SS_CSV == "ss"

RECOG_CSV == "recog"

\* what the classifier returns when no rule matches
None == "None"

\* (\w+_)? and (_\w+)?
ReWordPrefix == ReOpt(ReSeq(<<RePlus(ReSet(WordChars)), ReLit(<<"_">>)>>))

ReWordSuffix == ReOpt(ReSeq(<<ReLit(<<"_">>), RePlus(ReSet(WordChars))>>))

\* (\w+_)?stem(_\w+)?\.ext under re.IGNORECASE
ReLoose(stem, ext) ==
    ReSeq(<<ReWordPrefix, ReLitI(stem), ReWordSuffix, ReLitI(ext)>>)

\* stem_\w+\.csv under re.IGNORECASE
ReLooseScanning(stem) ==
    ReSeq(<<ReLitI(stem), ReLit(<<"_">>), RePlus(ReSet(WordChars)),
            ReLitI(<<".","c","s","v">>)>>)

\* stem_\d{12}(fu|FU)?\.ext
ReExact(stem, ext) ==
    ReSeq(<<ReLit(stem), ReLit(<<"_">>), ReRep(ReSet(Digits), 12),
            ReOpt(ReAlt(<<ReLit(<<"f","u">>), ReLit(<<"F","U">>)>>)), ReLit(ext)>>)

\* stem_\d{12}(fu|FU)?\.ext under re.IGNORECASE
ReExactI(stem, ext) ==
    ReSeq(<<ReLitI(stem), ReLit(<<"_">>), ReRep(ReSet(Digits), 12),
            ReOpt(ReAlt(<<ReLitI(<<"f","u">>), ReLitI(<<"F","U">>)>>)), ReLitI(ext)>>)

\* the loose list with the generic datasheet rule before the detailed one
LOOSE_REGEXES_DatasheetFirst ==
    << <<ReLoose(<<"c","a","n","t">>, <<".","c","c","l","a","r">>), CANTAB_CCLAR>>,
       <<ReLoose(<<"d","a","t","a","s","h","e","e","t">>, <<".","c","s","v">>), DATASHEET_CSV>>,
       <<ReSeq(<<ReWordPrefix, ReLitI(<<"d","e","t","a","i","l","e","d">>), ReSet({"_", " "}),
                 ReLitI(<<"d","a","t","a","s","h","e","e","t">>), ReWordSuffix, ReLitI(<<".","c","s","v">>)>>),
         DETAILED_DATASHEET_CSV>>,
       <<ReLoose(<<"r","e","p","o","r","t">>, <<".","h","t","m","l">>), REPORT_HTML>>,
       <<ReLooseScanning(<<"f","t">>), FT_CSV>>,
       <<ReLooseScanning(<<"m","i","d">>), MID_CSV>>,
       <<ReLooseScanning(<<"r","e","c","o","g">>), RECOG_CSV>>,
       <<ReLooseScanning(<<"s","s">>), SS_CSV>> >>

\* _LOOSE_ADDITIONAL_DATA_REGEXES
LOOSE_ADDITIONAL_DATA_REGEXES ==
    << <<ReLoose(<<"c","a","n","t">>, <<".","c","c","l","a","r">>), CANTAB_CCLAR>>,
       <<ReSeq(<<ReWordPrefix, ReLitI(<<"d","e","t","a","i","l","e","d">>), ReSet({"_", " "}),
                 ReLitI(<<"d","a","t","a","s","h","e","e","t">>), ReWordSuffix, ReLitI(<<".","c","s","v">>)>>),
         DETAILED_DATASHEET_CSV>>,
       <<ReLoose(<<"d","a","t","a","s","h","e","e","t">>, <<".","c","s","v">>), DATASHEET_CSV>>,
       <<ReLoose(<<"r","e","p","o","r","t">>, <<".","h","t","m","l">>), REPORT_HTML>>,
       <<ReLooseScanning(<<"f","t">>), FT_CSV>>,
       <<ReLooseScanning(<<"m","i","d">>), MID_CSV>>,
       <<ReLooseScanning(<<"r","e","c","o","g">>), RECOG_CSV>>,
       <<ReLooseScanning(<<"s","s">>), SS_CSV>> >>

\* _EXACT_ADDITIONAL_DATA_REGEXES
EXACT_ADDITIONAL_DATA_REGEXES ==
    << <<ReExact(<<"c","a","n","t">>, <<".","c","c","l","a","r">>), CANTAB_CCLAR>>,
       <<ReExact(<<"d","e","t","a","i","l","e","d","_","d","a","t","a","s","h","e","e","t">>, <<".","c","s","v">>), DETAILED_DATASHEET_CSV>>,
       <<ReExact(<<"d","a","t","a","s","h","e","e","t">>, <<".","c","s","v">>), DATASHEET_CSV>>,
       <<ReExact(<<"r","e","p","o","r","t">>, <<".","h","t","m","l">>), REPORT_HTML>>,
       <<ReExact(<<"f","t">>, <<".","c","s","v">>), FT_CSV>>,
       <<ReExact(<<"m","i","d">>, <<".","c","s","v">>), MID_CSV>>,
       <<ReExact(<<"r","e","c","o","g">>, <<".","c","s","v">>), RECOG_CSV>>,
       <<ReExactI(<<"s","s">>, <<".","c","s","v">>), SS_CSV>> >>

RECURSIVE FirstMatch(_, _, _)
\* for regex, filetype in regex_list: if regex.match(filename): return filetype
FirstMatch(regex_list, k, filename) ==
    IF k > Len(regex_list) THEN None
    ELSE IF ReMatch(regex_list[k][1], filename) THEN regex_list[k][2]
    ELSE FirstMatch(regex_list, k + 1, filename)

\* _match_additional_data_sops(filename, exact)
MatchAdditionalDataSops(filename, exact) ==
    LET regex_list == IF exact THEN EXACT_ADDITIONAL_DATA_REGEXES
                      ELSE LOOSE_ADDITIONAL_DATA_REGEXES
    IN  FirstMatch(regex_list, 1, filename)

\* the filenames classified: prefix, stem, code part, extension
FilenamePrefixes == {<<>>, <<"x","_">>, <<"d","e","t","a","i","l","e","d","_">>, <<"d","e","t","a","i","l","e","d"," ">>}

FilenameStems ==
    {<<"c","a","n","t">>, <<"d","a","t","a","s","h","e","e","t">>, <<"D","a","t","a","s","h","e","e","t">>, <<"r","e","p","o","r","t">>, <<"f","t">>, <<"m","i","d">>,
     <<"r","e","c","o","g">>, <<"S","S">>}

FilenameCodeParts ==
    {<<>>, <<"_","0","1","2","3","4","5","6","7","8","9","0","1">>, <<"_","0","1","2","3","4","5","6","7","8","9","0","1","F","U">>, <<"_","0","1","2","3","4","5","6","7","8","9","0","1","f","u">>,
     <<"_","0","1","2","3">>}

FilenameExtensions == {<<".","c","c","l","a","r">>, <<".","c","s","v">>, <<".","h","t","m","l">>, <<".","c","s","v",".","b","a","k">>}

Filenames ==
    {p \o s \o c \o e : p \in FilenamePrefixes, s \in FilenameStems,
                        c \in FilenameCodeParts, e \in FilenameExtensions}

\* the call of _match_additional_data_sops on the arguments drawn
Classify ==
    /\ cls_filename # <<>>
    /\ cls_result = <<>>
    /\ cls_result' = <<MatchAdditionalDataSops(cls_filename[1], cls_exact)>>
    /\ UNCHANGED <<cls_filename, cls_exact>>
    /\ UNCHANGED ClsOthers

(***************************************************************************)
(* Cells of the tables read and written, and strptime                      *)
(*                                                                         *)
(* A cell is a text, None or an integer.  A text that reads as a date is   *)
(* kept as the strptime format it is written in and the numbers written    *)
(* (for %y the two digits of the year), Garbage is a non-empty text that   *)
(* no format reads; every other text is its characters.                    *)
(***************************************************************************)
Txt(s) == [k |-> "text", s |-> s]

Empty == Txt(<<>>)

PyNone == [k |-> "none"]

PyInt(n) == [k |-> "int", n |-> n]

Garbage == [k |-> "garbage"]

DT(fmt, date, hh) == [k |-> "date", fmt |-> fmt, date |-> date, hh |-> hh]

\* bool(cell)
Truthy(v) ==
    ~ \/ v.k = "none"
      \/ v.k = "text" /\ v.s = <<>>
      \/ v.k = "int" /\ v.n = 0

\* what csv.writer puts in the file for a cell
Rendered(v) ==
    IF v.k = "none" THEN Empty
    ELSE IF v.k = "int" THEN Txt(IntToStr(v.n))
    ELSE v

\* the formats of the year with two digits
TwoDigitYearFormats == {"%d.%m.%y"}

\* the year strptime reads
YearRead(v) ==
    IF v.fmt \in TwoDigitYearFormats
    THEN (IF v.date[1] <= 68 THEN 2000 + v.date[1] ELSE 1900 + v.date[1])
    ELSE v.date[1]

\* datetime.strptime(cell, fmt): <<>> on ValueError, else <<datetime>>
Strptime(v, fmt) ==
    IF /\ v.k = "date"
       /\ v.fmt = fmt
       /\ ValidDate(YearRead(v), v.date[2], v.date[3])
    THEN <<[date |-> <<YearRead(v), v.date[2], v.date[3]>>, hh |-> v.hh]>>
    ELSE <<>>

RECURSIVE ParseFirst(_, _, _)
\* for date_format in formats: try: return strptime(...) except ValueError: pass
ParseFirst(v, formats, i) ==
    IF i > Len(formats) THEN <<>>
    ELSE IF Strptime(v, formats[i]) # <<>> THEN Strptime(v, formats[i])
    ELSE ParseFirst(v, formats, i + 1)

\* the days of a datetime a from a date b, the day of b counted as one
DatetimeDiffDaysInclusive(a, b) ==
    ((ToOrdinal(a.date) - ToOrdinal(b)) * 24 + a.hh) \div 24 + 1

\* (a - datetime(b.year, b.month, b.day)).days of a datetime a and a date b
DatetimeDiffDays(a, b) == ((ToOrdinal(a.date) - ToOrdinal(b)) * 24 + a.hh) \div 24

\* a < datetime(y, m, d) of a datetime a
DatetimeBefore(a, date) == ToOrdinal(a.date) < ToOrdinal(date)

Log(level, msg) == [level |-> level, msg |-> msg]

\* the dates of the events of the records: after the start of the study,
\* before it, and before the birth of every subject
EventDates == {<<2015, 3, 2>>, <<2005, 6, 1>>, <<1988, 12, 31>>}

\* the texts of a date cell: the dates in the formats given, a text no
\* format reads and the empty text
DateTexts(formats) ==
    {DT(f, d, 0) : f \in formats, d \in EventDates} \cup {Garbage, Empty}

\* mapping files and date-of-birth files the scripts run with: one subject
\* with a date of birth; two subjects, the internal code of one being the
\* public code of the other, both with a date of birth; the same two, the
\* first without a date of birth
AnonTables ==
    { << <<HeaderLine, <<CodeA, TokenA, CodeB>> >>,
         << <<CodeA, DobA, WhenField>> >> >>,
      << << <<CodeC, TokenB, CodeA>>, <<CodeA, TokenA, CodeB>> >>,
         << <<CodeA, DobA, WhenField>>, <<CodeC, DobC, WhenField>> >> >>,
      << << <<CodeC, TokenB, CodeA>>, <<CodeA, TokenA, CodeB>> >>,
         << <<CodeC, DobC, WhenField>> >> >> }

RECURSIVE DobFold(_)
\* the locals of _initialize_dob after the lines given
DobFold(lines) ==
    IF lines = <<>>
    THEN [status |-> "loading", dob_from_psc1 |-> <<>>]
    ELSE LET st == DobFold(SubSeq(lines, 1, Len(lines) - 1))
         IN  IF st.status = "loading" THEN DobStep(st, lines[Len(lines)])
             ELSE st

\* the state of the module once the date-of-birth files, holding the lines
\* given, have been loaded
DobLoadedFrom(lines) ==
    LET st == DobFold(lines)
    IN  /\ st.status = "loading"
        /\ dob_status = "loaded"
        /\ dob_file = 2
        /\ dob_read = lines
        /\ dob_from_psc1 = st.dob_from_psc1
        /\ DOB_FROM_PSC1 = st.dob_from_psc1
        /\ DOB_FROM_PSC2 = DobFromPsc2(st.dob_from_psc1, PSC2_FROM_PSC1)

(***************************************************************************)
(* The files the scripts work on                                           *)
(***************************************************************************)
\* records read from one file
MaxRecords == 2

\* s.rsplit('-', 1)
RSplitDash(s) ==
    LET I == {i \in 1..Len(s) : s[i] = "-"}
    IN  IF I = {} THEN <<s>>
        ELSE LET i == CHOOSE i \in I : \A j \in I : j <= i
             IN  <<SubSeq(s, 1, i - 1), SubSeq(s, i + 1, Len(s))>>

\* the order of the characters of the identifiers
CharRank(c) == IF c \in Digits THEN DigitVal(c) + 1 ELSE 0

RECURSIVE TextLess(_, _)
\* a < b of two str
TextLess(a, b) ==
    IF b = <<>> THEN FALSE
    ELSE IF a = <<>> THEN TRUE
    ELSE IF CharRank(Head(a)) # CharRank(Head(b))
    THEN CharRank(Head(a)) < CharRank(Head(b))
    ELSE TextLess(Tail(a), Tail(b))

RECURSIVE SortedKeys(_)
\* sorted(keys) of a set of str
SortedKeys(S) ==
    IF S = {} THEN <<>>
    ELSE LET least == CHOOSE x \in S : \A y \in S \ {x} : TextLess(x, y)
         IN  <<least>> \o SortedKeys(S \ {least})

\* the rows of pending whose key is k, in order
RowsOfKey(pend, k) ==
    LET F[i \in 0..Len(pend)] ==
            IF i = 0 THEN <<>>
            ELSE IF pend[i][1] = k THEN Append(F[i - 1], pend[i][2])
            ELSE F[i - 1]
    IN  F[Len(pend)]

RECURSIVE RowsInKeyOrder(_, _)
\* for k in keys: for row in rows[k]: write row
RowsInKeyOrder(pend, keys) ==
    IF keys = <<>> THEN <<>>
    ELSE RowsOfKey(pend, Head(keys)) \o RowsInKeyOrder(pend, Tail(keys))

\* a script opens a file with the columns hdr
AnonOpen(h, hdr, acc, status) ==
    /\ anon_status = "idle"
    /\ handler' = h
    /\ header' = hdr
    /\ anon_status' = status
    /\ rec_in' = <<>>
    /\ rec_out' = <<>>
    /\ rec_log' = <<>>
    /\ timestamp' = <<>>
    /\ n_done' = 0
    /\ pending' = acc
    /\ written' = <<>>
    /\ UNCHANGED AnonOthers

\* what every step on a record of the file at work does
AnonRead(h, r) ==
    /\ handler = h
    /\ anon_status = "running"
    /\ n_done < MaxRecords
    /\ n_done' = n_done + 1
    /\ rec_in' = <<r>>
    /\ UNCHANGED <<handler, header>>
    /\ UNCHANGED AnonOthers

(***************************************************************************)
(* cantab/imagen_cantab_extract_deidentify.py: cleanup, main, write        *)
(***************************************************************************)
\* DATE_FORMATS of _parse_csv_datetime
CANTAB_DATE_FORMATS ==
    <<"%d-%b-%Y %H:%M:%S", "%d-%b-%Y %H:%M", "%d %b %Y %H:%M:%S",
      "%d/%m/%Y %H:%M", "%d.%m.%Y %H:%M:%S", "%H:%M:%S %d.%m.%Y",
      "%d.%m.%Y %H:%M">>

\* _parse_csv_datetime(date_string), the locales of the formats being
\* installed: <<>> for None
ParseCsvDatetime(v) == ParseFirst(v, CANTAB_DATE_FORMATS, 1)

\* the (field, required) pairs of fields_BL that cleanup acts on: the
\* required ones
CANTAB_FIELDS ==
    << <<"Subject ID", TRUE>>, <<"Age", TRUE>>, <<"NART", TRUE>>, <<"Gender", TRUE>>,
       <<"Session start time", TRUE>>, <<"RVP A'", TRUE>>,
       <<"SWM Between errors", TRUE>>, <<"SWM Strategy", TRUE>> >>

\* _CANTAB_GENDER_MAPPING
CantabGender(s) ==
    IF s = <<"F","e","m","a","l","e">> THEN <<<<"F">>>>
    ELSE IF s = <<"M","a","l","e">> THEN <<<<"M">>>>
    ELSE <<>>

\* value.strip('"')
RECURSIVE StripQuotes(_)
StripQuotes(s) ==
    IF s # <<>> /\ Head(s) = "\"" THEN StripQuotes(Tail(s))
    ELSE IF s # <<>> /\ s[Len(s)] = "\"" THEN StripQuotes(SubSeq(s, 1, Len(s) - 1))
    ELSE s

\* the general cleanup of a value: quotes and decimal separator
CleanValue(v) ==
    IF v.k # "text" THEN v
    ELSE LET s == StripQuotes(v.s)
         IN  IF \A i \in 1..Len(s) : s[i] \in Digits \cup {"-", ","}
             THEN Txt([i \in 1..Len(s) |-> IF s[i] = "," THEN "." ELSE s[i]])
             ELSE Txt(s)

\* the body of 'for field in (Session start time, Test start time)'
CleanupDate(st, psc1, field) ==
    IF field \in DOMAIN st.row /\ Truthy(st.row[field])
    THEN LET session_start_time == ParseCsvDatetime(st.row[field])
         IN  IF session_start_time = <<>>
             THEN [st EXCEPT !.row[field] = Empty]
             ELSE IF DictHas(DOB_FROM_PSC1, psc1)
             THEN [st EXCEPT !.row[field] =
                      Txt(IntToStr(DatetimeDiffDays(session_start_time[1],
                                        DictGet(DOB_FROM_PSC1, psc1))))]
             ELSE [st EXCEPT !.row[field] = Empty,
                             !.log = Append(@, Log("error", "date of birth is missing"))]
    ELSE st

\* the required fields missing from the row, one message each
MissingRequired(row) ==
    LET F[i \in 0..Len(CANTAB_FIELDS)] ==
            IF i = 0 THEN <<>>
            ELSE IF CANTAB_FIELDS[i][2] /\ CANTAB_FIELDS[i][1] \notin DOMAIN row
            THEN Append(F[i - 1], Log("error", "missing required field"))
            ELSE F[i - 1]
    IN  F[Len(CANTAB_FIELDS)]

\* the body of 'for psc1 in data' of cleanup: the messages logged, the row
\* stored in result (out) and the exception raised, if any
CleanupBody(psc1, cantab) ==
    IF cantab.missing
    THEN [log |-> <<Log("error", "missing Cantab file")>>, out |-> <<>>,
          raised |-> "no"]
    ELSE IF Len(cantab.rows) > 1
    THEN [log |-> <<Log("error", "multiple data rows in Cantab file")>>,
          out |-> <<>>, raised |-> "no"]
    ELSE IF Len(cantab.rows) < 1
    THEN [log |-> <<Log("error", "missing data in Cantab file")>>,
          out |-> <<>>, raised |-> "no"]
    ELSE LET row0 == cantab.rows[1]
             log0 == MissingRequired(row0)
         IN  IF "Subject ID" \notin DOMAIN row0
             THEN [log |-> log0, out |-> <<>>, raised |-> "KeyError"]
             ELSE IF Prefix(row0["Subject ID"].s, 12) # psc1
             THEN [log |-> Append(log0, Log("error", "incorrect PSC1 code in Cantab file")),
                   out |-> <<>>, raised |-> "no"]
             ELSE LET st1 == [row |-> [row0 EXCEPT !["Subject ID"] = Txt(psc1)],
                              log |-> log0]
                      st2 == IF "Gender" \notin DOMAIN st1.row THEN st1
                             ELSE LET gender == st1.row["Gender"].s
                                  IN  IF CantabGender(gender) # <<>>
                                      THEN [st1 EXCEPT !.row["Gender"] =
                                                Txt(CantabGender(gender)[1])]
                                      ELSE IF gender # <<>>
                                      THEN [st1 EXCEPT
                                              !.row["Gender"] = Empty,
                                              !.log = Append(@, Log("error", "invalid value for 'Gender'"))]
                                      ELSE st1
                      st3 == CleanupDate(st2, psc1, "Session start time")
                      st4 == CleanupDate(st3, psc1, "Test start time")
                  IN  [log |-> st4.log,
                       out |-> <<[c \in DOMAIN st4.row |-> CleanValue(st4.row[c])]>>,
                       raised |-> "no"]

\* a row of the columns cols
CantabRow(cols, sid, gender, session, test) ==
    [c \in cols |->
        CASE c = "Subject ID" -> Txt(sid)
          [] c = "Gender" -> Txt(gender)
          [] c = "Session start time" -> session
          [] c = "Test start time" -> test
          [] c = "Age" -> Txt(<<"\"", "1", "4", ",", "5", "\"">>)]

CantabColumns == {"Subject ID", "Age", "Gender", "Session start time", "Test start time"}

CantabSessionTexts ==
    DateTexts({"%d-%b-%Y %H:%M:%S", "%d.%m.%Y %H:%M:%S"})
        \cup {DT("%Y-%m-%d %H:%M:%S", <<2015, 3, 2>>, 0),
              DT("%d-%b-%Y %H:%M:%S", <<2015, 2, 30>>, 0),
              DT("%d-%b-%Y %H:%M:%S", <<2015, 3, 2>>, 23)}

CantabTestTime == DT("%d/%m/%Y %H:%M", <<2015, 3, 2>>, 0)

\* the rows a Cantab file of subject psc1 may hold: a complete row with each
\* session start time, and rows that depart from it in one column
CantabRows(psc1) ==
    {CantabRow(CantabColumns, psc1, <<"F","e","m","a","l","e">>, session, CantabTestTime) :
        session \in CantabSessionTexts}
    \cup {CantabRow(CantabColumns \ cols, psc1, <<"F","e","m","a","l","e">>,
                    DT("%d-%b-%Y %H:%M:%S", <<2015, 3, 2>>, 0), CantabTestTime) :
            cols \in {{"Gender", "Test start time"}, {"Session start time"}, {"Subject ID"}}}
    \cup {CantabRow(CantabColumns, sid, gender,
                    DT("%d-%b-%Y %H:%M:%S", <<2015, 3, 2>>, 0), Garbage) :
            sid \in {psc1 \o <<"F","U","2">>, CodeB}, gender \in {<<>>, <<"x">>, <<"M","a","l","e">>}}

CantabFiles(psc1) ==
    {[missing |-> TRUE, rows |-> <<>>], [missing |-> FALSE, rows |-> <<>>]}
    \cup {[missing |-> FALSE, rows |-> <<row>>] : row \in CantabRows(psc1)}
    \cup {[missing |-> FALSE,
           rows |-> <<CantabRow({"Subject ID", "Age"}, psc1, <<>>, Empty, Empty),
                      CantabRow({"Subject ID", "Age"}, psc1, <<>>, Empty, Empty)>>]}

\* one turn of the loop of cleanup, on the entry of subject psc1
CleanupEntry(psc1, cantab) ==
    /\ AnonRead("cleanup", [psc1 |-> psc1, cantab |-> cantab])
    /\ \A p \in pending : p[1] # psc1
    /\ LET res == CleanupBody(psc1, cantab)
       IN  /\ rec_log' = res.log
           /\ rec_out' = res.out
           /\ anon_status' = IF res.raised = "no" THEN "running" ELSE res.raised
           /\ pending' = pending \cup {<<psc1, res.out # <<>> >>}
    /\ UNCHANGED <<timestamp, written>>

\* the end of the loop of cleanup: main maps the keys to public codes and
\* write puts the rows in the file, sorted by public code
CleanupWrite ==
    /\ handler = "cleanup"
    /\ anon_status = "running"
    /\ LET kept == {p[1] : p \in {q \in pending : q[2]}}
       IN  IF \E psc1 \in kept : ~DictHas(PSC2_FROM_PSC1, psc1)
           THEN \* PSC2_FROM_PSC1[psc1]
                /\ anon_status' = "KeyError"
                /\ UNCHANGED written
           ELSE /\ anon_status' = "idle"
                /\ written' = SortedKeys({DictGet(PSC2_FROM_PSC1, psc1) : psc1 \in kept})
    /\ handler' = IF anon_status' = "idle" THEN "none" ELSE handler
    /\ rec_in' = <<>>
    /\ rec_out' = <<>>
    /\ rec_log' = <<>>
    /\ UNCHANGED <<header, timestamp, n_done, pending>>
    /\ UNCHANGED AnonOthers

(***************************************************************************)
(* dawba/imagen_dawba_deidentify.py: _create_psc2_file                     *)
(***************************************************************************)
WITHDRAWN_DAWBA_CODES == {<<"1","2","7","6","5","7">>}

MISSING_DAWBA1_CODES == {<<"1","9","0","4","2">>}

\* the header line of the DAWBA file, split at the tabulations
DAWBA_HEADER == <<<<"d","a","w","b","a">>, <<"s","s","t","a","r","t","d","a","t","e">>, <<"r","a","t","e","r","n","a","m","e">>, <<"p","1","s","t","a","r","t","d","a","t","e">>, <<"x">>>>

\* convert and skip of _create_psc2_file
DawbaConvert(items) ==
    {i \in 1..Len(items) :
        Contains(items[i], <<"s","s","t","a","r","t","d","a","t","e">>) \/ Contains(items[i], <<"p","1","s","t","a","r","t","d","a","t","e">>)}

DawbaSkip(items) ==
    {i \in 1..Len(items) :
        Contains(items[i], <<"r","a","t","e","r","n","a","m","e">>) \/ Contains(items[i], <<"r","a","t","e","d","a","t","e">>)}

\* [item for i, item in enumerate(items) if i not in skip]
DawbaKeep(items, skip) ==
    LET F[i \in 0..Len(items)] ==
            IF i = 0 THEN <<>>
            ELSE IF i \in skip THEN F[i - 1] ELSE Append(F[i - 1], items[i])
    IN  F[Len(items)]

\* the body of 'for i in convert' on one item
DawbaDate(item, psc1) ==
    IF item # Empty
    THEN IF DictHas(DOB_FROM_PSC1, psc1)
         THEN LET startdate == Strptime(item, "%d.%m.%y")
              IN  IF startdate = <<>> THEN [raised |-> "ValueError", item |-> item]
                  ELSE [raised |-> "no",
                        item |-> Txt(IntToStr(DateDiffDays(startdate[1].date,
                                                  DictGet(DOB_FROM_PSC1, psc1))))]
         ELSE [raised |-> "no", item |-> Empty]
    ELSE [raised |-> "no", item |-> item]

\* the body of 'for line in dawba_file'
DawbaBody(items) ==
    LET dawba == items[1].s
    IN  IF ~DictHas(PSC1_FROM_DAWBA, dawba)
        THEN [log |-> <<IF dawba \in WITHDRAWN_DAWBA_CODES
                        THEN Log("info", "withdrawn DAWBA code")
                        ELSE IF dawba \in MISSING_DAWBA1_CODES
                        THEN Log("warning", "missing DAWBA1 codes")
                        ELSE Log("error", "DAWBA code missing from conversion table")>>,
              out |-> <<>>, raised |-> "no"]
        ELSE LET psc1 == DictGet(PSC1_FROM_DAWBA, dawba)
             IN  IF ~DictHas(PSC2_FROM_PSC1, psc1)
                 THEN [log |-> <<Log("error", "PSC1 code missing from conversion table")>>,
                       out |-> <<>>, raised |-> "no"]
                 ELSE LET psc2 == DictGet(PSC2_FROM_PSC1, psc1)
                          convert == DawbaConvert(DAWBA_HEADER)
                          dates == [i \in convert |-> DawbaDate(items[i], psc1)]
                          items2 == [i \in 1..Len(items) |->
                                        IF i = 1 THEN Txt(psc2)
                                        ELSE IF i \in convert THEN dates[i].item
                                        ELSE items[i]]
                      IN  IF \E i \in convert : dates[i].raised # "no"
                          THEN [log |-> <<Log("info", "converting subject from DAWBA to PSC2")>>,
                                out |-> <<>>, raised |-> "ValueError"]
                          ELSE [log |-> <<Log("info", "converting subject from DAWBA to PSC2")>>,
                                out |-> <<DawbaKeep(items2, DawbaSkip(DAWBA_HEADER))>>,
                                raised |-> "no"]

DawbaCodes == Tokens \cup WITHDRAWN_DAWBA_CODES \cup MISSING_DAWBA1_CODES \cup {<<"t","9">>}

\* the dates as DAWBA writes them, the year with two digits
DawbaDateTexts ==
    {DT("%d.%m.%y", d, 0) : d \in {<<15, 3, 2>>, <<5, 6, 1>>, <<88, 12, 31>>, <<15, 2, 30>>}}
        \cup {DT("%d.%m.%Y", <<2015, 3, 2>>, 0), Garbage, Empty}

DawbaLines ==
    {<<Txt(dawba), DT("%d.%m.%y", <<15, 3, 2>>, 0), Txt(<<"D","r">>), Empty, Txt(<<"1">>)>> :
        dawba \in DawbaCodes}
    \cup {<<Txt(dawba), d1, Txt(<<"D","r">>), d2, Txt(<<"1">>)>> :
            dawba \in Tokens, d1 \in DawbaDateTexts,
            d2 \in {Empty, DT("%d.%m.%y", <<5, 6, 1>>, 0)}}

\* one line of the DAWBA file
DawbaLine(items) ==
    /\ AnonRead("dawba", items)
    /\ LET res == DawbaBody(items)
       IN  /\ rec_log' = res.log
           /\ rec_out' = res.out
           /\ anon_status' = IF res.raised = "no" THEN "running" ELSE res.raised
    /\ UNCHANGED <<timestamp, pending, written>>

(***************************************************************************)
(* onsets/imagen_onsets_extract_FU3.py: dataset_FU3, process_behavioural   *)
(***************************************************************************)
ONSETS_DATE_FORMATS == <<"%d.%m.%Y %H:%M:%S", "%d/%m/%Y %H:%M:%S">>

\* _parse_onsets_datetime(date_string): <<>> for None
ParseOnsetsDatetime(v) == ParseFirst(v, ONSETS_DATE_FORMATS, 1)

RECURSIVE ReplaceAll(_, _, _)
\* s.replace(old, new), old not empty
ReplaceAll(s, old, new) ==
    IF Len(s) < Len(old) THEN s
    ELSE IF SubSeq(s, 1, Len(old)) = old
    THEN new \o ReplaceAll(SubSeq(s, Len(old) + 1, Len(s)), old, new)
    ELSE <<Head(s)>> \o ReplaceAll(Tail(s), old, new)

\* dataset_FU3 up to the start of the pool: the public code of every
\* dataset listed is looked up
OnsetsOpen(todo) ==
    AnonOpen("onsets", todo, {},
             IF \E psc1 \in todo : ~DictHas(PSC2_FROM_PSC1, psc1)
             THEN "KeyError" ELSE "running")

\* process_behavioural on the first line of a file of the dataset of psc1
ProcessBehaviouralBody(prefix, psc1, psc2, column) ==
    IF Len(column) < 2 THEN [out |-> <<>>, raised |-> "IndexError"]
    ELSE LET parsed == ParseOnsetsDatetime(column[2])
         IN  IF parsed = <<>> THEN [out |-> <<>>, raised |-> "AttributeError"]
             ELSE IF ~DictHas(DOB_FROM_PSC1, psc1)
             THEN [out |-> <<>>, raised |-> "KeyError"]
             ELSE IF Len(column) < 3 THEN [out |-> <<>>, raised |-> "IndexError"]
             ELSE [out |-> <<[prefix |-> prefix, psc2 |-> psc2,
                              column |-> [column EXCEPT
                                  ![2] = Txt(IntToStr(DateDiffDays(parsed[1].date,
                                                DictGet(DOB_FROM_PSC1, psc1)))),
                                  ![3] = Txt(ReplaceAll(column[3].s, psc1, psc2))]]>>,
                   raised |-> "no"]

OnsetsPrefixes == {"ft", "ss"}

\* the first lines of the behavioural files of the dataset of psc1
OnsetsLines(psc1) ==
    {<<Txt(<<"t","a","s","k">>), d, Txt(c)>> :
        d \in DateTexts({"%d.%m.%Y %H:%M:%S", "%d/%m/%Y %H:%M:%S"})
                \cup {DT("%d-%b-%Y %H:%M:%S", <<2015, 3, 2>>, 0)},
        c \in {psc1 \o <<"F","U","3">>}}
    \cup {<<Txt(<<"t","a","s","k">>), DT("%d.%m.%Y %H:%M:%S", <<2015, 3, 2>>, 0), Txt(<<"x">>)>>,
          <<Txt(<<"t","a","s","k">>), DT("%d.%m.%Y %H:%M:%S", <<2015, 3, 2>>, 0)>>,
          <<Txt(<<"t","a","s","k">>)>>}

\* one behavioural file of one dataset of the list
ProcessBehavioural(prefix, psc1, column) ==
    /\ AnonRead("onsets", [prefix |-> prefix, psc1 |-> psc1, column |-> column])
    /\ psc1 \in header
    /\ LET res == ProcessBehaviouralBody(prefix, psc1,
                        DictGet(PSC2_FROM_PSC1, psc1), column)
       IN  /\ rec_log' = <<Log("info", "processing behavioural file")>>
           /\ rec_out' = res.out
           /\ anon_status' = IF res.raised = "no" THEN "running" ELSE res.raised
    /\ UNCHANGED <<timestamp, pending, written>>

(***************************************************************************)
(* psytools/imagen_psytools_deidentify.py: _psc1, _deidentify_lsrc2        *)
(***************************************************************************)
\* str.upper()
UpperText(s) == [i \in 1..Len(s) |-> UpperChar(s[i])]

\* s[-n:]
Last(s, n) == SubSeq(s, IF Len(s) > n THEN Len(s) - n + 1 ELSE 1, Len(s))

\* s[:-n]
ButLast(s, n) == SubSeq(s, 1, Len(s) - n)

\* _psc1(psc1, psc2_from_psc1), table being psc2_from_psc1: the message
\* logged, <<>> for None
Psc1(psc1, table) ==
    IF Contains(UpperText(psc1), <<"T","E","S","T">>)
    THEN [log |-> <<Log("debug", "skipping test subject")>>, psc1 |-> <<>>]
    ELSE LET stripped == IF Last(psc1, 3) \in {<<"F","U","2">>, <<"F","U","3">>} THEN ButLast(psc1, 3)
                         ELSE IF Last(psc1, 2) = <<"S","B">> THEN ButLast(psc1, 2)
                         ELSE psc1
         IN  IF DictHas(table, stripped)
             THEN [log |-> <<>>, psc1 |-> <<stripped>>]
             ELSE IF stripped \in {<<"0","x","0","0","0","0","x","x","x","x","x","x">>}
             THEN [log |-> <<Log("info", "skipping known invalid subject identifier")>>,
                   psc1 |-> <<>>]
             ELSE [log |-> <<Log("error", "invalid subject identifier")>>,
                   psc1 |-> <<>>]

LSRC2_COLUMNS_TO_REMOVE == {"token", "ipaddr", "IdCheckGender", "IdCheckDob", "geoLoc_search"}

LSRC2_COLUMNS_WITH_DATE == {"startdate", "datestamp", "submitdate"}

\* the body of 'for x in COLUMNS_WITH_DATE' on one column of the row
Lsrc2Date(row, x, psc1) ==
    IF x \in DOMAIN row /\ Truthy(row[x])
    THEN LET date == Strptime(row[x], "%Y-%m-%d %H:%M:%S")
         IN  IF date = <<>> THEN [raised |-> "ValueError", log |-> <<>>, v |-> row[x]]
             ELSE IF DictHas(DOB_FROM_PSC1, psc1)
             THEN [raised |-> "no", log |-> <<>>,
                   v |-> PyInt(DateDiffDays(date[1].date, DictGet(DOB_FROM_PSC1, psc1)))]
             ELSE [raised |-> "no", log |-> <<Log("error", "unknown date of birth")>>,
                   v |-> PyNone]
    ELSE [raised |-> "no", log |-> <<>>, v |-> IF x \in DOMAIN row THEN row[x] ELSE PyNone]

\* the messages of the columns cols, column after column
Lsrc2Logs(dates, cols) ==
    LET F[i \in 0..Len(cols)] ==
            IF i = 0 THEN <<>>
            ELSE IF cols[i] \in DOMAIN dates THEN F[i - 1] \o dates[cols[i]].log
            ELSE F[i - 1]
    IN  F[Len(cols)]

\* the body of 'for row in psc1_reader'; the rows are written as they come
Lsrc2Body(row) ==
    LET found == Psc1(row["id"].s, PSC2_FROM_PSC1)
    IN  IF found.psc1 = <<>>
        THEN [log |-> found.log, out |-> <<>>, raised |-> "no"]
        ELSE LET psc1 == found.psc1[1]
                 psc2 == DictGet(PSC2_FROM_PSC1, psc1)
                 kept == DOMAIN row \ LSRC2_COLUMNS_TO_REMOVE
                 cols == kept \cap LSRC2_COLUMNS_WITH_DATE
                 dates == [x \in cols |-> Lsrc2Date(row, x, psc1)]
             IN  IF \E x \in cols : dates[x].raised # "no"
                 THEN [log |-> found.log, out |-> <<>>, raised |-> "ValueError"]
                 ELSE [log |-> found.log \o
                               Lsrc2Logs(dates, <<"startdate", "datestamp", "submitdate">>),
                       out |-> <<[x \in kept |->
                                    IF x = "id" THEN Txt(psc2)
                                    ELSE IF x \in cols THEN dates[x].v
                                    ELSE row[x]]>>,
                       raised |-> "no"]

Lsrc2Headers == {{"id", "token", "startdate", "datestamp", "q1"}, {"id", "q1"}}

Lsrc2Ids ==
    {CodeA, CodeC, CodeB, CodeA \o <<"F","U","2">>, CodeA \o <<"S","B">>, CodeA \o <<"-","C">>,
     <<"t","e","s","t","0","1">>, <<"0","x","0","0","0","0","x","x","x","x","x","x">>}

Lsrc2Row(cols, id, startdate, datestamp) ==
    [x \in cols |->
        CASE x = "id" -> Txt(id)
          [] x = "token" -> Txt(<<"k">>)
          [] x = "startdate" -> startdate
          [] x = "datestamp" -> datestamp
          [] x = "q1" -> Txt(<<"1">>)]

Lsrc2StartDates ==
    DateTexts({"%Y-%m-%d %H:%M:%S"})
        \cup {DT("%Y-%m-%d %H:%M:%S.%f", <<2015, 3, 2>>, 0), PyNone}

\* the rows of a file of the columns cols
Lsrc2Rows(cols) ==
    {Lsrc2Row(cols, id, DT("%Y-%m-%d %H:%M:%S", <<2015, 3, 2>>, 0), Empty) :
        id \in Lsrc2Ids}
    \cup {Lsrc2Row(cols, id, startdate, datestamp) :
            id \in {CodeA, CodeC}, startdate \in Lsrc2StartDates,
            datestamp \in {Empty, DT("%Y-%m-%d %H:%M:%S", <<2005, 6, 1>>, 0)}}

\* one row of the LSRC2 file
Lsrc2Line(row) ==
    /\ AnonRead("lsrc2", row)
    /\ DOMAIN row = header
    /\ LET res == Lsrc2Body(row)
       IN  /\ rec_log' = res.log
           /\ rec_out' = res.out
           /\ anon_status' = IF res.raised = "no" THEN "running" ELSE res.raised
    /\ UNCHANGED <<timestamp, pending, written>>


(***************************************************************************)
(* psytools/imagen_psytools_deidentify_csv.py: _create_psc2_file           *)
(***************************************************************************)
\* ANONYMIZED_COLUMNS of _create_psc2_file
CSV_ANONYMIZED_COLUMNS ==
    [f \in {"Completed Timestamp", "Processed Timestamp"} |-> "%Y-%m-%d %H:%M:%S.%f"]

\* the test of the date of birth before a timestamp is converted
CsvHasBirth(psc1, psc2) == DictHas(DOB_FROM_PSC2, psc1)

RECURSIVE CsvConvert(_, _, _, _, _)
\* 'for fieldname in convert' from the i-th field name on; st holds the row,
\* the variable timestamp and the exception raised
CsvConvert(st, fieldnames, i, psc1, psc2) ==
    IF i > Len(fieldnames) \/ st.raised # "no" THEN st
    ELSE IF fieldnames[i] \notin DOMAIN CSV_ANONYMIZED_COLUMNS
    THEN CsvConvert(st, fieldnames, i + 1, psc1, psc2)
    ELSE LET fieldname == fieldnames[i]
             next ==
                IF CsvHasBirth(psc1, psc2)
                THEN IF ~DictHas(DOB_FROM_PSC2, psc2)
                     THEN [st EXCEPT !.raised = "KeyError"]
                     ELSE LET parsed == Strptime(st.row[fieldname],
                                                 CSV_ANONYMIZED_COLUMNS[fieldname])
                          IN  IF parsed = <<>>
                              THEN [st EXCEPT !.raised = "ValueError"]
                              ELSE [st EXCEPT
                                     !.timestamp = <<parsed[1].date>>,
                                     !.row[fieldname] =
                                        Txt(IntToStr(DateDiffDays(parsed[1].date,
                                                DictGet(DOB_FROM_PSC2, psc2))))]
                ELSE [st EXCEPT !.row[fieldname] = PyNone]
         IN  CsvConvert(next, fieldnames, i + 1, psc1, psc2)

\* the rows that contain dates: education_end, ni_period, ni_date
CsvTrialResult(st, trial, psc2) ==
    IF st.raised # "no" THEN st
    ELSE IF trial = <<"e","d","u","c","a","t","i","o","n","_","e","n","d">>
    THEN IF psc2 # <<>> /\ DictHas(DOB_FROM_PSC2, psc2)
         THEN LET event == Strptime(st.row["Trial result"], "%d-%m-%Y")
              IN  IF event = <<>> THEN [st EXCEPT !.row["Trial result"] = PyNone]
                  ELSE [st EXCEPT !.row["Trial result"] =
                            Txt(IntToStr(DateDiffDays(event[1].date,
                                            DictGet(DOB_FROM_PSC2, psc2))))]
         ELSE [st EXCEPT !.row["Trial result"] = PyNone]
    ELSE IF trial = <<"n","i","_","p","e","r","i","o","d">> \/ trial = <<"n","i","_","d","a","t","e">>
    THEN LET event == Strptime(st.row["Trial result"], "%d-%m-%Y")
         IN  IF event = <<>> THEN [st EXCEPT !.row["Trial result"] = PyNone]
             ELSE IF st.timestamp = <<>>
             THEN [st EXCEPT !.raised = "UnboundLocalError"]
             ELSE [st EXCEPT !.row["Trial result"] =
                      Txt(IntToStr(DateDiffDays(st.timestamp[1], event[1].date)))]
    ELSE st

\* the user code rewritten: PSC1 and what follows the last dash
CsvUserCode(user_code) ==
    LET psc1_suffix == RSplitDash(user_code)
        psc2 == DictGet(PSC2_FROM_PSC1, psc1_suffix[1])
    IN  IF Len(psc1_suffix) > 1 THEN psc2 \o <<"-">> \o psc1_suffix[2] ELSE psc2

\* the body of 'for row in psc1_reader': the row written (out), the
\* messages, the variable timestamp and the exception raised
CsvBody(row, fieldnames, ts) ==
    LET trial == row["Trial"].s
        psc1 == RSplitDash(row["User code"].s)[1]
    IN  IF Contains(trial, <<"i","d","_","c","h","e","c","k","_">>)
        THEN [log |-> <<Log("debug", "skipping line with id_check_")>>,
              out |-> <<>>, timestamp |-> ts, raised |-> "no"]
        ELSE IF ~DictHas(PSC2_FROM_PSC1, psc1)
        THEN LET u == UpperText(psc1)
             IN  [log |-> <<IF \/ Contains(u, <<"F","O","L","L","O","W","U","P">>) \/ Contains(u, <<"T","E","S","T">>)
                               \/ Contains(u, <<"M","A","R","E","N">>) \/ Contains(u, <<"T","H","O","M","A","S","_","P","R","O","N","K">>)
                            THEN Log("debug", "skipping test subject")
                            ELSE Log("error", "unknown PSC1 code")>>,
                  out |-> <<>>, timestamp |-> ts, raised |-> "no"]
        ELSE LET psc2 == DictGet(PSC2_FROM_PSC1, psc1)
                 st0 == [row |-> [row EXCEPT !["User code"] =
                                      Txt(CsvUserCode(row["User code"].s))],
                         timestamp |-> ts, raised |-> "no"]
                 st1 == CsvConvert(st0, fieldnames, 1, psc1, psc2)
                 st2 == CsvTrialResult(st1, trial, psc2)
             IN  [log |-> <<Log("debug", "converting")>>,
                  out |-> IF st2.raised = "no" THEN <<st2.row>> ELSE <<>>,
                  timestamp |-> st2.timestamp, raised |-> st2.raised]

CsvHeaders ==
    {<<"User code", "Trial", "Trial result", "Completed Timestamp", "Processed Timestamp">>,
     <<"User code", "Trial", "Trial result">>}

UserCodes ==
    {CodeA \o <<"-","C">>, CodeA \o <<"-","P">>, CodeA \o <<"-","I">>, CodeA, CodeC \o <<"-","C">>,
     CodeB \o <<"-","C">>, CodeA \o <<"F","U","3">>, CodeA \o <<"-","x","-","C">>, <<"t","e","s","t","0","1","-","C">>}

CsvRow(fieldnames, user_code, trial, result, completed, processed) ==
    [f \in {fieldnames[i] : i \in 1..Len(fieldnames)} |->
        CASE f = "User code" -> Txt(user_code)
          [] f = "Trial" -> Txt(trial)
          [] f = "Trial result" -> result
          [] f = "Completed Timestamp" -> completed
          [] f = "Processed Timestamp" -> processed]

CsvTimestamp == DT("%Y-%m-%d %H:%M:%S.%f", <<2015, 3, 2>>, 10)

CsvTimestamps ==
    DateTexts({"%Y-%m-%d %H:%M:%S.%f"})
        \cup {DT("%Y-%m-%d %H:%M:%S", <<2015, 3, 2>>, 10)}

\* the rows of a file of the columns fieldnames
CsvRows(fieldnames) ==
    {CsvRow(fieldnames, user_code, <<"t","s","_","1">>, Txt(<<"1">>), CsvTimestamp, CsvTimestamp) :
        user_code \in UserCodes}
    \cup {CsvRow(fieldnames, user_code, <<"t","s","_","1">>, Txt(<<"1">>), completed, CsvTimestamp) :
            user_code \in {CodeA \o <<"-","C">>, CodeC \o <<"-","C">>}, completed \in CsvTimestamps}
    \cup {CsvRow(fieldnames, user_code, trial, result, CsvTimestamp,
                 DT("%Y-%m-%d %H:%M:%S.%f", <<2005, 6, 1>>, 0)) :
            user_code \in {CodeA \o <<"-","C">>, CodeC \o <<"-","C">>},
            trial \in {<<"e","d","u","c","a","t","i","o","n","_","e","n","d">>, <<"n","i","_","p","e","r","i","o","d">>},
            result \in DateTexts({"%d-%m-%Y"})}
    \cup {CsvRow(fieldnames, CodeA \o <<"-","C">>, <<"i","d","_","c","h","e","c","k","_","d","o","b">>, Txt(DobA), CsvTimestamp,
                 CsvTimestamp)}

\* one row of the Psytools file
CsvLine(row) ==
    /\ AnonRead("psytools_csv", row)
    /\ DOMAIN row = {header[i] : i \in 1..Len(header)}
    /\ LET res == CsvBody(row, header, timestamp)
       IN  /\ rec_log' = res.log
           /\ rec_out' = res.out
           /\ timestamp' = res.timestamp
           /\ anon_status' = IF res.raised = "no" THEN "running" ELSE res.raised
    /\ UNCHANGED <<pending, written>>

(***************************************************************************)
(* psytools/imagen_psytools_process_csv.py: _create_psc2_file              *)
(***************************************************************************)
\* line.split(','): the items of the row, in the order of the header
ProcessCsvItems(row, fieldnames) ==
    [i \in 1..Len(fieldnames) |-> row[fieldnames[i]]]

\* 'id_check' in line
ProcessCsvIdCheck(items) ==
    \E i \in 1..Len(items) :
        items[i].k = "text" /\ Contains(items[i].s, <<"i","d","_","c","h","e","c","k">>)

\* '-'.join((psc2, suffix)): TypeError when suffix is None
ProcessCsvJoin(psc2, suffix) ==
    IF suffix = <<>> THEN [raised |-> "TypeError", value |-> <<>>]
    ELSE [raised |-> "no", value |-> psc2 \o <<"-">> \o suffix[1]]

RECURSIVE ProcessCsvConvert(_, _, _, _)
\* 'for i in convert' from the i-th column on; st holds the items and the
\* exception raised
ProcessCsvConvert(st, fieldnames, i, psc2) ==
    IF i > Len(fieldnames) \/ st.raised # "no" THEN st
    ELSE IF fieldnames[i] \notin {"Completed Timestamp", "Processed Timestamp"}
    THEN ProcessCsvConvert(st, fieldnames, i + 1, psc2)
    ELSE LET next ==
                IF ~DictHas(DOB_FROM_PSC2, psc2)
                THEN [st EXCEPT !.items[i] = Empty]
                ELSE LET parsed == Strptime(st.items[i], "%Y-%m-%d %H:%M:%S.%f")
                     IN  IF parsed = <<>>
                         THEN [st EXCEPT !.raised = "ValueError"]
                         ELSE [st EXCEPT !.items[i] =
                                  Txt(IntToStr(DateDiffDays(parsed[1].date,
                                          DictGet(DOB_FROM_PSC2, psc2))))]
         IN  ProcessCsvConvert(next, fieldnames, i + 1, psc2)

\* the body of 'for line in psytools_file': the line written (out), the
\* messages, the exception raised
ProcessCsvBody(items, fieldnames) ==
    LET dash == Contains(items[1].s, <<"-">>)
        psc1 == IF dash THEN RSplitDash(items[1].s)[1] ELSE items[1].s
        suffix == IF dash THEN <<RSplitDash(items[1].s)[2]>> ELSE <<>>
    IN  IF ProcessCsvIdCheck(items)
        THEN [log |-> <<Log("debug", "skipping line with id_check")>>,
              out |-> <<>>, raised |-> "no"]
        ELSE IF \/ StartsWith(psc1, <<"T","E","S","T">>) \/ StartsWith(psc1, <<"F","O","L","L","O","W","U","P">>)
                \/ StartsWith(psc1, <<"T","H","O","M","A","S","_","P","R","O","N","K">>) \/ StartsWith(psc1, <<"M","A","R","E","N">>)
        THEN [log |-> <<Log("debug", "skipping test subject")>>,
              out |-> <<>>, raised |-> "no"]
        ELSE IF ~DictHas(PSC2_FROM_PSC1, psc1)
        THEN [log |-> <<Log("error", "PSC1 code missing from conversion table")>>,
              out |-> <<>>, raised |-> "no"]
        ELSE LET psc2 == DictGet(PSC2_FROM_PSC1, psc1)
                 joined == ProcessCsvJoin(psc2, suffix)
                 st0 == [items |-> [items EXCEPT ![1] = Txt(joined.value)],
                         raised |-> joined.raised]
                 st1 == ProcessCsvConvert(st0, fieldnames, 1, psc2)
             IN  [log |-> <<Log("debug", "converting subject")>>,
                  out |-> IF st1.raised = "no" THEN <<st1.items>> ELSE <<>>,
                  raised |-> st1.raised]

\* the lines of the Psytools files
ProcessCsvLines(fieldnames) ==
    {ProcessCsvItems(row, fieldnames) : row \in CsvRows(fieldnames)}

\* one line of the Psytools file
ProcessCsvLine(items) ==
    /\ AnonRead("process_csv", items)
    /\ Len(items) = Len(header)
    /\ LET res == ProcessCsvBody(items, header)
       IN  /\ rec_log' = res.log
           /\ rec_out' = res.out
           /\ anon_status' = IF res.raised = "no" THEN "running" ELSE res.raised
    /\ UNCHANGED <<timestamp, pending, written>>

(***************************************************************************)
(* psytools/imagen_psytools_deidentify.py: _deidentify_legacy              *)
(***************************************************************************)
\* ANONYMIZED_COLUMNS of _deidentify_legacy
LEGACY_ANONYMIZED_COLUMNS ==
    [f \in {"Completed Timestamp", "Processed Timestamp"} |->
        <<"%Y-%m-%d %H:%M:%S.%f", "%Y-%m-%d %H:%M:%S">>]

DISCARDED_COLUMNS ==
    {"id_check_dob", "id_check_gender", "id_check_relation",
     "DATE_BIRTH_1", "DATE_BIRTH_2", "DATE_BIRTH_3",
     "TEST_DATE_1", "TEST_DATE_2", "TEST_DATE_3"}

\* the suffixes of the user codes of the questionnaires
LEGACY_SUFFIXES == {<<"-","C">>, <<"-","P">>, <<"-","I">>}

\* the user code rewritten, the suffix dropped
LegacyUserCodeNoSuffix(user_code) ==
    DictGet(PSC2_FROM_PSC1, Prefix(user_code, 12))

\* the user code rewritten: PSC1 is the first 12 characters
LegacyUserCode(user_code) ==
    LET psc1 == Prefix(user_code, 12)
        suffix == Suffix(user_code, 12)
        psc2 == DictGet(PSC2_FROM_PSC1, psc1)
    IN  IF suffix \in LEGACY_SUFFIXES THEN psc2 \o suffix ELSE psc2

RECURSIVE LegacyConvert(_, _, _, _)
\* 'for fieldname in convert' from the i-th field name on
LegacyConvert(st, fieldnames, i, psc1) ==
    IF i > Len(fieldnames) THEN st
    ELSE IF fieldnames[i] \notin DOMAIN LEGACY_ANONYMIZED_COLUMNS
    THEN LegacyConvert(st, fieldnames, i + 1, psc1)
    ELSE LET fieldname == fieldnames[i]
             next ==
                IF DictHas(DOB_FROM_PSC1, psc1)
                THEN LET parsed == ParseFirst(st.row[fieldname],
                                              LEGACY_ANONYMIZED_COLUMNS[fieldname], 1)
                     IN  IF parsed = <<>>
                         THEN [st EXCEPT !.row[fieldname] = PyNone,
                                         !.log = Append(@, Log("error", "invalid timestamp"))]
                         ELSE [st EXCEPT
                                 !.timestamp = <<parsed[1].date>>,
                                 !.row[fieldname] =
                                    Txt(IntToStr(DateDiffDays(parsed[1].date,
                                            DictGet(DOB_FROM_PSC1, psc1))))]
                ELSE [st EXCEPT !.row[fieldname] = PyNone]
         IN  LegacyConvert(next, fieldnames, i + 1, psc1)

\* the columns education_end, ni_period, ni_date
LegacyEventColumn(st, column, psc1) ==
    IF column \notin DOMAIN st.row THEN st
    ELSE IF DictHas(DOB_FROM_PSC1, psc1)
    THEN LET d == Strptime(st.row[column], "%d-%m-%Y")
         IN  IF d = <<>> THEN [st EXCEPT !.row[column] = PyNone]
             ELSE [st EXCEPT !.row[column] =
                      Txt(IntToStr(DateDiffDays(d[1].date, DictGet(DOB_FROM_PSC1, psc1))))]
    ELSE [st EXCEPT !.row[column] = PyNone]

\* the columns pbq_01, pbq_02: the age at the last timestamp read
LegacyBirthColumn(st, column) ==
    IF column \notin DOMAIN st.row \/ st.raised # "no" THEN st
    ELSE LET birth == Strptime(st.row[column], "%d-%m-%Y")
         IN  IF birth = <<>> THEN [st EXCEPT !.row[column] = PyNone]
             ELSE IF st.timestamp = <<>>
             THEN [st EXCEPT !.raised = "UnboundLocalError"]
             ELSE [st EXCEPT !.row[column] =
                      Txt(IntToStr(DateDiffDays(st.timestamp[1], birth[1].date)))]

\* the body of 'for row in psc1_reader': the key and the row appended to
\* rows (out), the messages, the variable timestamp, the exception raised
LegacyBody(row, fieldnames, ts) ==
    LET user_code == row["User code"].s
        psc1 == Prefix(user_code, 12)
        suffix == Suffix(user_code, 12)
    IN  IF ~DictHas(PSC2_FROM_PSC1, psc1)
        THEN [log |-> <<Log("error", "unknown PSC1 code")>>, key |-> <<>>,
              out |-> <<>>, timestamp |-> ts, raised |-> "no"]
        ELSE LET psc2 == DictGet(PSC2_FROM_PSC1, psc1)
                 st0 == [row |-> [row EXCEPT !["User code"] =
                                      Txt(LegacyUserCode(user_code))],
                         log |-> IF suffix \notin LEGACY_SUFFIXES \cup {<<"F","U","3">>, <<"S","B">>}
                                 THEN <<Log("error", "unknown suffix")>> ELSE <<>>,
                         timestamp |-> ts, raised |-> "no"]
                 st1 == LegacyConvert(st0, fieldnames, 1, psc1)
                 st2 == LegacyEventColumn(st1, "education_end", psc1)
                 st3 == LegacyEventColumn(st2, "ni_period", psc1)
                 st4 == LegacyEventColumn(st3, "ni_date", psc1)
                 st5 == LegacyBirthColumn(st4, "pbq_01")
                 st6 == LegacyBirthColumn(st5, "pbq_02")
             IN  [log |-> st6.log, key |-> <<psc2>>,
                  out |-> IF st6.raised = "no"
                          THEN <<[f \in DOMAIN st6.row \ DISCARDED_COLUMNS |-> st6.row[f]]>>
                          ELSE <<>>,
                  timestamp |-> st6.timestamp, raised |-> st6.raised]

LegacyHeaders ==
    {<<"User code", "Completed Timestamp", "Processed Timestamp", "education_end",
       "pbq_01", "id_check_dob">>,
     <<"User code", "pbq_01", "Completed Timestamp">>}

LegacyRow(fieldnames, user_code, completed, education_end, pbq_01) ==
    [f \in {fieldnames[i] : i \in 1..Len(fieldnames)} |->
        CASE f = "User code" -> Txt(user_code)
          [] f = "Completed Timestamp" -> completed
          [] f = "Processed Timestamp" -> DT("%Y-%m-%d %H:%M:%S", <<2005, 6, 1>>, 0)
          [] f = "education_end" -> education_end
          [] f = "pbq_01" -> pbq_01
          [] f = "id_check_dob" -> Txt(DobA)]

LegacyTimestamps ==
    DateTexts({"%Y-%m-%d %H:%M:%S.%f"})
        \cup {DT("%Y-%m-%d %H:%M:%S", <<2015, 3, 2>>, 10),
              DT("%d-%m-%Y", <<2015, 3, 2>>, 0)}

\* the rows of a file of the columns fieldnames
LegacyRows(fieldnames) ==
    {LegacyRow(fieldnames, user_code, CsvTimestamp, Empty, Empty) :
        user_code \in UserCodes}
    \cup {LegacyRow(fieldnames, user_code, completed, Empty, Empty) :
            user_code \in {CodeA \o <<"-","C">>, CodeC \o <<"-","C">>},
            completed \in LegacyTimestamps}
    \cup {LegacyRow(fieldnames, CodeA \o <<"-","C">>, completed, event, birth) :
            completed \in {CsvTimestamp, Garbage},
            event \in {DT("%d-%m-%Y", <<2015, 3, 2>>, 0), Garbage},
            birth \in {DT("%d-%m-%Y", <<1988, 12, 31>>, 0), Garbage}}

\* one row of the legacy Psytools file
LegacyLine(row) ==
    /\ AnonRead("legacy", row)
    /\ DOMAIN row = {header[i] : i \in 1..Len(header)}
    /\ LET res == LegacyBody(row, header, timestamp)
       IN  /\ rec_log' = res.log
           /\ rec_out' = res.out
           /\ timestamp' = res.timestamp
           /\ anon_status' = IF res.raised = "no" THEN "running" ELSE res.raised
           /\ pending' = IF res.out # <<>>
                         THEN Append(pending, <<res.key[1], n_done + 1>>)
                         ELSE pending
    /\ UNCHANGED written

\* the field names of the output file, every input column kept
LegacyFieldnamesAll(fieldnames) == fieldnames

\* the field names of the output file: those of the input file that are
\* not in DISCARDED_COLUMNS, in the order of the input file
LegacyFieldnames(fieldnames) ==
    SelectSeq(fieldnames, LAMBDA fieldname : fieldname \notin DISCARDED_COLUMNS)

\* the end of the legacy file: the header is written, then the rows, sorted
\* by public code
LegacyWrite ==
    /\ handler = "legacy"
    /\ anon_status = "running"
    /\ anon_status' = "idle"
    /\ handler' = "none"
    /\ written' = [fieldnames |-> LegacyFieldnames(header),
                   rows |-> RowsInKeyOrder(pending,
                               SortedKeys({pending[i][1] : i \in 1..Len(pending)}))]
    /\ UNCHANGED <<header, rec_in, rec_out, rec_log, timestamp, n_done, pending>>
    /\ UNCHANGED AnonOthers

(***************************************************************************)
(* imagen_databank/cantab.py: _parse_csv_datetime, read_datasheet          *)
(***************************************************************************)
\* DATE_FORMATS of _parse_csv_datetime
DATASHEET_DATE_FORMATS ==
    <<"%d-%b-%Y %H:%M:%S", "%d/%m/%Y %H:%M", "%d.%m.%Y %H:%M:%S",
      "%d %b %Y %H:%M:%S", "%H:%M:%S %d.%m.%Y">>

\* _parse_csv_datetime(date_string): <<>> for None
ParseDatasheetDatetime(v) == ParseFirst(v, DATASHEET_DATE_FORMATS, 1)

\* the date "Session start time" is compared with
SESSION_FLOOR == <<2007, 1, 1>>

\* fields = {v: i for i, v in enumerate(header)}, the first column being 1
DatasheetFields(hdr) ==
    LET F[i \in 0..Len(hdr)] ==
            IF i = 0 THEN <<>> ELSE DictSet(F[i - 1], hdr[i], i)
    IN  F[Len(hdr)]

\* the locals of read_datasheet after the header
DatasheetInit(hdr) ==
    [subject_ids |-> {}, session_start_times |-> {},
     rows |-> IF hdr # <<>> THEN 1 ELSE 0,
     columns_min |-> Len(hdr), columns_max |-> Len(hdr)]

\* session_start_times.add(session_start_time)
SessionTimesAdd(times, t) == times \cup {t}

\* the body of 'for row in reader'
DatasheetBody(acc, fields, row) ==
    IF Len(row) > 0 /\ DictHas(fields, "Subject ID")
                    /\ DictGet(fields, "Subject ID") > Len(row)
    THEN [acc |-> acc, log |-> <<>>, raised |-> "IndexError"]
    ELSE LET acc1 == IF Len(row) > 0
                     THEN [acc EXCEPT !.subject_ids = @ \cup
                              {IF DictHas(fields, "Subject ID")
                               THEN row[DictGet(fields, "Subject ID")]
                               ELSE row[1]}]
                     ELSE acc
         IN  IF ~DictHas(fields, "Session start time")
             THEN [acc |-> [acc1 EXCEPT
                              !.columns_min = IF Len(row) < @ THEN Len(row) ELSE @,
                              !.columns_max = IF Len(row) > @ THEN Len(row) ELSE @,
                              !.rows = @ + 1],
                   log |-> <<>>, raised |-> "no"]
             ELSE IF DictGet(fields, "Session start time") > Len(row)
             THEN [acc |-> acc1, log |-> <<>>, raised |-> "IndexError"]
             ELSE LET session_start_time ==
                          ParseDatasheetDatetime(row[DictGet(fields, "Session start time")])
                      acc2 == IF session_start_time = <<>> THEN acc1
                              ELSE [acc1 EXCEPT !.session_start_times =
                                       SessionTimesAdd(@, session_start_time[1])]
                  IN  [acc |-> [acc2 EXCEPT
                                  !.columns_min = IF Len(row) < @ THEN Len(row) ELSE @,
                                  !.columns_max = IF Len(row) > @ THEN Len(row) ELSE @,
                                  !.rows = @ + 1],
                       log |-> IF session_start_time # <<>>
                                  /\ DatetimeBefore(session_start_time[1], SESSION_FLOOR)
                               THEN <<Log("warning", "Session start time anterior to 2007")>>
                               ELSE <<>>,
                       raised |-> "no"]

DatasheetHeaders ==
    {<<"Subject ID", "Session start time">>, <<"Session start time">>,
     <<"Subject ID">>, <<>>}

DatasheetRows ==
    {<<Txt(CodeA), session>> :
        session \in DateTexts({"%d-%b-%Y %H:%M:%S", "%d/%m/%Y %H:%M"})
                        \cup {DT("%d-%b-%Y %H:%M", <<2015, 3, 2>>, 0)}}
    \cup {<<Txt(CodeA \o <<"F","U","2">>), DT("%d-%b-%Y %H:%M:%S", <<2015, 3, 2>>, 0)>>,
          <<Txt(CodeA)>>, <<>>}

\* read_datasheet opens the file and reads the header
ReadDatasheetOpen(hdr) ==
    AnonOpen("read_datasheet", hdr, DatasheetInit(hdr), "running")

\* one row of the datasheet
ReadDatasheetRow(row) ==
    /\ AnonRead("read_datasheet", row)
    /\ LET res == DatasheetBody(pending, DatasheetFields(header), row)
       IN  /\ rec_log' = res.log
           /\ rec_out' = <<>>
           /\ pending' = res.acc
           /\ anon_status' = IF res.raised = "no" THEN "running" ELSE res.raised
    /\ UNCHANGED <<timestamp, written>>

\* the end of the datasheet: read_datasheet returns what it gathered
ReadDatasheetReturn ==
    /\ handler = "read_datasheet"
    /\ anon_status = "running"
    /\ anon_status' = "idle"
    /\ handler' = "none"
    /\ written' = <<pending.subject_ids, pending.session_start_times, pending.rows,
                    pending.columns_min, DatasheetFields(header)>>
    /\ UNCHANGED <<header, rec_in, rec_out, rec_log, timestamp, n_done, pending>>
    /\ UNCHANGED AnonOthers

(***************************************************************************)
(* imagen_databank/sanity/imaging.py: _check_psc1, ZipTree                 *)
(*                                                                         *)
(* An optional argument is <<>> for None and <<v>> for the value v.  The   *)
(* filename of a ZipInfo is the sequence of its parts between slashes,     *)
(* is_dir telling whether it ends with a slash.  A ZipTree is a function   *)
(* from the path of a folder, <<>> for the root, to its node: its          *)
(* filename ('' being <<>>) and the names of its directories and the       *)
(* ZipInfo of its files, both in the order of insertion.                   *)
(***************************************************************************)
\* Error(path, message) of core.py; detail is what follows the colon
Error(path, message, detail) == [path |-> path, message |-> message, detail |-> detail]

\* s.endswith(t)
EndsWith(s, t) == Len(s) >= Len(t) /\ SubSeq(s, Len(s) - Len(t) + 1, Len(s)) = t

\* bool(x) of an optional string
TruthyArg(x) == x # <<>> /\ x[1] # <<>>

\* the messages of _check_psc1, the expected code compared as given
CheckPsc1AsGiven(subject_id, suffix, psc1) ==
    LET hasSuffix == TruthyArg(suffix) /\ EndsWith(subject_id, suffix[1])
        id1 == IF hasSuffix THEN ButLast(subject_id, Len(suffix[1])) ELSE subject_id
        m1 == IF TruthyArg(suffix) /\ ~hasSuffix
                 /\ (Len(subject_id) <= 12 \/ IsDigits(subject_id))
              THEN <<"should end with suffix">> ELSE <<>>
        unexpected == /\ ~IsDigits(id1)
                      /\ Len(id1) > 12
                      /\ IsDigits(Prefix(id1, 12))
                      /\ id1[13] \notin Digits
        m2 == IF IsDigits(id1)
              THEN IF Len(id1) # 12 THEN <<"contains digits instead of 12">> ELSE <<>>
              ELSE IF unexpected THEN <<"ends with unexpected suffix">> ELSE <<>>
        id2 == IF unexpected THEN Prefix(id1, 12) ELSE id1
        expected == IF psc1 # <<>> THEN psc1[1] ELSE <<>>
        m3 == IF ~IsDigits(id2) THEN <<"should contain 12 digits">>
              ELSE IF Len(id2) # 12 THEN <<"contains characters instead of 12">>
              ELSE IF ~DictHas(PSC2_FROM_PSC1, id2) THEN <<"is not valid">>
              ELSE IF TruthyArg(psc1) /\ id2 # expected THEN <<"was expected to be">>
              ELSE <<>>
    IN  m1 \o m2 \o m3

\* the messages of _check_psc1(subject_id, suffix, psc1), in order
CheckPsc1(subject_id, suffix, psc1) ==
    LET hasSuffix == TruthyArg(suffix) /\ EndsWith(subject_id, suffix[1])
        id1 == IF hasSuffix THEN ButLast(subject_id, Len(suffix[1])) ELSE subject_id
        m1 == IF TruthyArg(suffix) /\ ~hasSuffix
                 /\ (Len(subject_id) <= 12 \/ IsDigits(subject_id))
              THEN <<"should end with suffix">> ELSE <<>>
        unexpected == /\ ~IsDigits(id1)
                      /\ Len(id1) > 12
                      /\ IsDigits(Prefix(id1, 12))
                      /\ id1[13] \notin Digits
        m2 == IF IsDigits(id1)
              THEN IF Len(id1) # 12 THEN <<"contains digits instead of 12">> ELSE <<>>
              ELSE IF unexpected THEN <<"ends with unexpected suffix">> ELSE <<>>
        id2 == IF unexpected THEN Prefix(id1, 12) ELSE id1
        expected == IF TruthyArg(psc1) /\ TruthyArg(suffix) /\ EndsWith(psc1[1], suffix[1])
                    THEN ButLast(psc1[1], Len(suffix[1]))
                    ELSE IF psc1 # <<>> THEN psc1[1] ELSE <<>>
        m3 == IF ~IsDigits(id2) THEN <<"should contain 12 digits">>
              ELSE IF Len(id2) # 12 THEN <<"contains characters instead of 12">>
              ELSE IF ~DictHas(PSC2_FROM_PSC1, id2) THEN <<"is not valid">>
              ELSE IF TruthyArg(psc1) /\ id2 # expected THEN <<"was expected to be">>
              ELSE <<>>
    IN  m1 \o m2 \o m3

\* [Error(path, prefix + message) for message in _check_psc1(...)]
Psc1Errors(path, prefix, subject_id, suffix, psc1) ==
    LET messages == CheckPsc1(subject_id, suffix, psc1)
    IN  [i \in 1..Len(messages) |-> Error(path, prefix, messages[i])]

\* ZipTree(filename)
ZipTreeNode(filename) == [filename |-> filename, directories |-> <<>>, files |-> <<>>]

\* ZipTree()
ZipTreeEmpty == (<<>> :> ZipTreeNode(<<>>))

RECURSIVE SetDefault(_, _, _, _)
\* 'for part in parts: d = d.directories.setdefault(part, ...)' from the
\* i-th part on, a new node being named after its path when named
SetDefault(tree, parts, i, named) ==
    IF i > Len(parts) THEN tree
    ELSE LET d == SubSeq(parts, 1, i - 1)
             child == SubSeq(parts, 1, i)
         IN  IF child \in DOMAIN tree
             THEN SetDefault(tree, parts, i + 1, named)
             ELSE SetDefault(
                    [tree EXCEPT ![d].directories = Append(@, parts[i])]
                        @@ (child :> ZipTreeNode(IF named THEN child ELSE <<>>)),
                    parts, i + 1, named)

\* ZipTree._add(zipinfo), a second entry of a file taking the place of the
\* first
ZipTreeAddLastWins(tree, zipinfo) ==
    IF zipinfo.is_dir
    THEN [tree |-> SetDefault(tree, zipinfo.filename, 1, TRUE), raised |-> FALSE]
    ELSE LET parts == ButLast(zipinfo.filename, 1)
             made == SetDefault(tree, parts, 1, FALSE)
             others == SelectSeq(made[parts].files,
                          LAMBDA z : z.filename # zipinfo.filename)
         IN  [tree |-> [made EXCEPT ![parts].files = Append(others, zipinfo)],
              raised |-> FALSE]

\* ZipTree._add(zipinfo): the tree, and whether BadZipFile is raised
ZipTreeAdd(tree, zipinfo) ==
    IF zipinfo.is_dir
    THEN [tree |-> SetDefault(tree, zipinfo.filename, 1, TRUE), raised |-> FALSE]
    ELSE LET parts == ButLast(zipinfo.filename, 1)
             basename == zipinfo.filename[Len(zipinfo.filename)]
             made == SetDefault(tree, parts, 1, FALSE)
             files == made[parts].files
         IN  IF \A i \in 1..Len(files) :
                    files[i].filename[Len(files[i].filename)] # basename
             THEN [tree |-> [made EXCEPT ![parts].files = Append(@, zipinfo)],
                   raised |-> FALSE]
             ELSE [tree |-> made, raised |-> TRUE]

RECURSIVE ZipTreeCreate(_, _, _)
\* ZipTree.create(path): 'for zipinfo in z.infolist()' from the i-th on
ZipTreeCreate(tree, infolist, i) ==
    IF i > Len(infolist) THEN [tree |-> tree, raised |-> FALSE]
    ELSE LET added == ZipTreeAdd(tree, infolist[i])
         IN  IF added.raised THEN added
             ELSE ZipTreeCreate(added.tree, infolist, i + 1)

\* the last part of the filename of a ZipInfo
Basename(zipinfo) == zipinfo.filename[Len(zipinfo.filename)]

\* ziptree.filename + f: the name handed to ZipFile.extract
NodeFile(node, zipinfo) == node.filename \o <<Basename(zipinfo)>>

RECURSIVE Files(_, _)
\* _files(ziptree) of the node at path d: the names of the files, those of
\* the folder first, then those of its directories
Files(tree, d) ==
    LET node == tree[d]
        own == [i \in 1..Len(node.files) |-> NodeFile(node, node.files[i])]
        F[i \in 0..Len(node.directories)] ==
            IF i = 0 THEN <<>>
            ELSE F[i - 1] \o Files(tree, Append(d, node.directories[i]))
    IN  own \o F[Len(node.directories)]

RECURSIVE CheckEmptyFiles(_, _)
\* _check_empty_files(ziptree) of the node at path d
CheckEmptyFiles(tree, d) ==
    LET node == tree[d]
        own == SelectSeq(node.files, LAMBDA zipinfo : zipinfo.file_size = 0)
        F[i \in 0..Len(node.directories)] ==
            IF i = 0 THEN <<>>
            ELSE F[i - 1] \o CheckEmptyFiles(tree, Append(d, node.directories[i]))
    IN  [i \in 1..Len(own) |-> Error(own[i].filename, "File is empty", "")]
            \o F[Len(node.directories)]

(***************************************************************************)
(* imagen_databank/sanity/imaging.py: the names of the files of Scanning   *)
(***************************************************************************)
\* _BEHAVIORAL_PREFIX_EXTENSION, in the order of the dict
BEHAVIORAL_PREFIX_EXTENSION ==
    << <<"mid", <<"m","i","d","_">>, <<".","c","s","v">>>>,
       <<"ft", <<"f","t","_">>, <<".","c","s","v">>>>,
       <<"ss", <<"s","s","_">>, <<".","c","s","v">>>>,
       <<"recog", <<"r","e","c","o","g","_">>, <<".","c","s","v">>>> >>

\* _check_behavioral_name(filename): <<>> for (None, None), else
\* <<key, subject_id>>
CheckBehavioralName(filename) ==
    LET Matches(i) ==
            /\ Prefix(filename, Len(BEHAVIORAL_PREFIX_EXTENSION[i][2]))
                  = BEHAVIORAL_PREFIX_EXTENSION[i][2]
            /\ Last(filename, Len(BEHAVIORAL_PREFIX_EXTENSION[i][3]))
                  = BEHAVIORAL_PREFIX_EXTENSION[i][3]
        I == {i \in 1..Len(BEHAVIORAL_PREFIX_EXTENSION) : Matches(i)}
    IN  IF I = {} THEN <<>>
        ELSE LET i == CHOOSE i \in I : \A j \in I : i <= j
                 prefix == BEHAVIORAL_PREFIX_EXTENSION[i][2]
                 extension == BEHAVIORAL_PREFIX_EXTENSION[i][3]
             IN  <<BEHAVIORAL_PREFIX_EXTENSION[i][1],
                   SubSeq(filename, Len(prefix) + 1, Len(filename) - Len(extension))>>

\* filename.rsplit('.', 1): <<root, ext>>, ext being <<>> for None
RSplitDot(filename) ==
    LET I == {i \in 1..Len(filename) : filename[i] = "."}
    IN  IF I = {} THEN <<filename, <<>> >>
        ELSE LET i == CHOOSE i \in I : \A j \in I : j <= i
             IN  <<SubSeq(filename, 1, i - 1), <<SubSeq(filename, i + 1, Len(filename))>> >>

\* _check_physiological_name(filename): <<>> for (None, None), else
\* <<ext, subject_id>>, subject_id being <<>> for None
CheckPhysiologicalName(filename) ==
    LET root == RSplitDot(filename)[1]
        ext == RSplitDot(filename)[2]
        raw == <<"I","m","a","g","e","n","B","R","e","s","t","_","R","e","s","t","i","n","g","_","1","_","R","a","w","_">>
        times == <<"I","m","a","g","e","n","B","R","e","s","t","_","R","e","s","t","i","n","g","_","1","_","T","i","m","e","s","_">>
        scanphyslog == <<"S","C","A","N","P","H","Y","S","L","O","G">>
    IN  IF ext = <<>> THEN <<>>
        ELSE IF ext[1] \in {<<"e","c","g">>, <<"e","x","t">>, <<"p","u","l","s">>, <<"r","e","s","p">>}
        THEN IF Last(root, 5) = <<"_","r","e","s","t">>
             THEN <<ext[1], <<ButLast(root, 5)>> >>
             ELSE <<ext[1], <<root>> >>
        ELSE IF ext[1] = <<"l","o","g">>
        THEN IF /\ Prefix(root, Len(scanphyslog)) = scanphyslog
                /\ IsDigits(Suffix(root, Len(scanphyslog)))
                /\ Len(Suffix(root, Len(scanphyslog))) = 14
             THEN <<ext[1], <<>> >>
             ELSE <<>>
        ELSE IF ext[1] = <<"t","x","t">>
        THEN IF Prefix(root, Len(raw)) = raw
             THEN <<ext[1], <<Suffix(root, Len(raw))>> >>
             ELSE IF Prefix(root, Len(times)) = times
             THEN <<ext[1], <<Suffix(root, Len(times))>> >>
             ELSE <<>>
        ELSE <<>>

(***************************************************************************)
(* imagen_databank/sanity/imaging.py: check_zip_content, _check_ziptree,   *)
(* _check_additional_data, _check_scanning, _check_image_data              *)
(***************************************************************************)
ADDITIONAL_DATA == <<"A","d","d","i","t","i","o","n","a","l","D","a","t","a">>

SCANNING == <<"S","c","a","n","n","i","n","g">>

IMAGE_DATA == <<"I","m","a","g","e","D","a","t","a">>

\* x in a sequence
InSeq(x, seq) == \E i \in 1..Len(seq) : seq[i] = x

\* the uppermost folder at work and its node
Uppermost == ziptree[<<zip_dir[1]>>]

\* what the statements of one unit of work leave alone
ZipFrame == UNCHANGED <<unit, zip_args>> /\ UNCHANGED ZipOthers

\* TemporaryDirectory.__init__ and __enter__: mkdtemp makes a new directory
TemporaryDirectoryEnter(dirs) ==
    dirs \cup {1 + Cardinality(dirs)}

\* TemporaryDirectory.__exit__, the directory left behind
TemporaryDirectoryKept(dirs) == dirs

\* TemporaryDirectory.__exit__: shutil.rmtree(self.pathname), the block
\* at work being the one entered last
TemporaryDirectoryExit(dirs) ==
    dirs \ {Cardinality(dirs)}

\* an exception leaves the unit of work: every 'with' block is left, and
\* __exit__ of TemporaryDirectory removes the directory
ZipRaise(exception) ==
    /\ zip_status' = exception
    /\ tempdirs' = TemporaryDirectoryExit(tempdirs)
    /\ UNCHANGED <<zip_pc, ziptree, zip_todo, zip_dir, zip_files, error_list,
                   subject_ids, actual_tests>>

\* check_zip_content(path, timepoint, psc1, date, expected), to the head of
\* the loop of _check_ziptree over the uppermost folders
CheckZipContent(archive, timepoint, psc1, date, expected) ==
    /\ unit = "none"
    /\ zip_status = "idle"
    /\ unit' = "check_zip_content"
    /\ zip_args' = [archive |-> archive, suffix |-> timepoint, psc1 |-> psc1,
                    date |-> date, expected |-> expected]
    /\ LET basename == <<archive.basename>>
           created == ZipTreeCreate(ZipTreeEmpty, archive.infolist, 1)
           root == created.tree[<<>>]
       IN  IF archive.size = 0
           THEN /\ error_list' = <<Error(basename, "ZIP file is empty", "")>>
                /\ zip_status' = "returned"
                /\ UNCHANGED <<zip_pc, ziptree, zip_todo>>
           ELSE IF created.raised
           THEN /\ error_list' = <<Error(basename, "Cannot read ZIP file",
                                         "duplicate file entry in zipfile")>>
                /\ zip_status' = "returned"
                /\ UNCHANGED <<zip_pc, ziptree, zip_todo>>
           ELSE /\ ziptree' = created.tree
                /\ error_list' =
                      [i \in 1..Len(root.files) |->
                          Error(root.files[i].filename,
                                "Unexpected file at the root of the ZIP file", "")]
                      \o (IF Len(root.directories) < 1
                          THEN <<Error(basename, "ZIP file lacks an uppermost folder", "")>>
                          ELSE <<>>)
                /\ zip_todo' = root.directories
                /\ zip_pc' = "uppermost"
                /\ zip_status' = "running"
    /\ UNCHANGED <<zip_dir, zip_files, subject_ids, actual_tests, tempdirs, extracted>>
    /\ UNCHANGED ZipOthers

\* the statement after the check of the name, were the folder left when
\* its name fails
UppermostNextNamed(messages) ==
    IF messages = <<>> THEN "AdditionalData" ELSE "uppermost"

\* the statement after the check of the name of the uppermost folder,
\* messages being what _check_psc1 yields: the loops over its files and
\* folders and the branch 'AdditionalData', whatever the messages
UppermostNext(messages) == "AdditionalData"

\* 'for d, z in ziptree.directories.items()' of _check_ziptree: the name of
\* the next uppermost folder, its files and its folders
CheckUppermost ==
    /\ unit = "check_zip_content"
    /\ zip_status = "running"
    /\ zip_pc = "uppermost"
    /\ zip_todo # <<>>
    /\ LET d == Head(zip_todo)
           z == ziptree[<<d>>]
       IN  /\ zip_dir' = <<d>>
           /\ error_list' = error_list
                 \o Psc1Errors(z.filename, "Incorrect uppermost folder name",
                               d, zip_args.suffix, zip_args.psc1)
                 \o [i \in 1..Len(z.files) |->
                        Error(<<Basename(z.files[i])>>,
                              "Unexpected file in the uppermost folder", "")]
                 \o LET other == SelectSeq(z.directories,
                                    LAMBDA x : x # ADDITIONAL_DATA /\ x # IMAGE_DATA)
                    IN  [i \in 1..Len(other) |->
                            Error(z.filename,
                                  "Unexpected folder subfolder in the uppermost folder", "")]
    /\ zip_todo' = Tail(zip_todo)
    /\ zip_pc' = UppermostNext(CheckPsc1(Head(zip_todo), zip_args.suffix, zip_args.psc1))
    /\ UNCHANGED <<zip_status, ziptree, zip_files, subject_ids, actual_tests,
                   tempdirs, extracted>>
    /\ ZipFrame

\* expected_psc1 of _check_ziptree: <<>> when endswith raises TypeError,
\* else <<the optional code>>
ExpectedPsc1(subject_id, suffix, psc1) ==
    IF TruthyArg(psc1) THEN <<psc1>>
    ELSE IF suffix = <<>> THEN <<>>
    ELSE IF EndsWith(subject_id, suffix[1])
    THEN << <<ButLast(subject_id, Len(suffix[1]))>> >>
    ELSE << <<subject_id>> >>

\* expected_tests of _check_scanning: <<>> for None, else <<the set>>
ExpectedTests(expected) ==
    IF expected = <<>> THEN <<>>
    ELSE <<{x \in {"mid", "ft", "ss", "recog"} : expected[1][x] # "Missing"}>>

\* the branch 'AdditionalData' of _check_ziptree, _check_additional_data and
\* _check_scanning to the head of its loop over the files
CheckAdditionalData ==
    /\ unit = "check_zip_content"
    /\ zip_status = "running"
    /\ zip_pc = "AdditionalData"
    /\ LET z == Uppermost
           path == <<zip_dir[1], ADDITIONAL_DATA>>
           expected_psc1 == ExpectedPsc1(zip_dir[1], zip_args.suffix, zip_args.psc1)
       IN  IF ~InSeq(ADDITIONAL_DATA, z.directories)
           THEN /\ error_list' = Append(error_list,
                      Error(z.filename \o <<ADDITIONAL_DATA>>,
                            "Folder \"AdditionalData\" is missing", ""))
                /\ zip_pc' = "ImageData"
                /\ UNCHANGED <<zip_status, zip_files, tempdirs>>
           ELSE IF expected_psc1 = <<>>
           THEN \* expected_psc1.endswith(None)
                /\ zip_status' = "TypeError"
                /\ UNCHANGED <<zip_pc, zip_files, error_list, tempdirs>>
           ELSE LET node == ziptree[path]
                    others == IF Len(node.directories) > 1
                              THEN SelectSeq(node.directories, LAMBDA x : x # SCANNING)
                              ELSE <<>>
                    e1 == [i \in 1..Len(others) |->
                              Error(ziptree[Append(path, others[i])].filename,
                                    "Folder \"AdditionalData\" should contain only a \"Scanning\" folder", "")]
                IN  IF InSeq(SCANNING, node.directories)
                    THEN LET scanning == ziptree[Append(path, SCANNING)]
                         IN  /\ error_list' = error_list \o e1 \o
                                   [i \in 1..Len(scanning.directories) |->
                                       Error(ziptree[Append(Append(path, SCANNING),
                                                            scanning.directories[i])].filename,
                                             "Folder \"Scanning\" should not contain subfolders", "")]
                             /\ zip_files' = scanning.files
                             /\ zip_pc' = "Scanning"
                             /\ UNCHANGED <<zip_status, tempdirs>>
                    ELSE /\ error_list' = error_list \o e1 \o
                               <<Error(node.filename \o <<SCANNING>>,
                                       "Folder \"Scanning\" is missing", "")>>
                         /\ zip_pc' = "ImageData"
                         /\ UNCHANGED <<zip_status, zip_files, tempdirs>>
    /\ actual_tests' = {}
    /\ UNCHANGED <<ziptree, zip_todo, zip_dir, subject_ids, extracted>>
    /\ ZipFrame

\* None among the identifiers found
NoneId == <<"None">>

\* the files of the folder Scanning in the order of the loop of
\* _check_scanning, and expected_psc1, the psc1 of its call
ScanningPsc1 == ExpectedPsc1(zip_dir[1], zip_args.suffix, zip_args.psc1)[1]

\* one turn of 'for f, z in ziptree.files.items()' of _check_scanning, to
\* 'continue' or to the 'with TemporaryDirectory()' block
CheckScanningFile ==
    /\ unit = "check_zip_content"
    /\ zip_status = "running"
    /\ zip_pc = "Scanning"
    /\ zip_files # <<>>
    /\ LET z == Head(zip_files)
           f == Basename(z)
           behavioral == CheckBehavioralName(f)
           physiological == CheckPhysiologicalName(f)
       IN  IF behavioral # <<>>
           THEN /\ IF behavioral[2] # <<>>
                   THEN /\ subject_ids' = subject_ids \cup {behavioral[2]}
                        /\ error_list' = error_list \o
                              Psc1Errors(z.filename, "Incorrect behavioral file name",
                                         behavioral[2], zip_args.suffix, ScanningPsc1)
                   ELSE /\ error_list' = Append(error_list,
                              Error(z.filename, "Unexpected behavioral file name", ""))
                        /\ UNCHANGED subject_ids
                /\ tempdirs' = TemporaryDirectoryEnter(tempdirs)
                /\ zip_pc' = "behavioral"
                /\ UNCHANGED zip_files
           ELSE /\ IF physiological # <<>>
                   THEN IF TruthyArg(physiological[2])
                        THEN /\ subject_ids' = subject_ids \cup {physiological[2][1]}
                             /\ error_list' = error_list \o
                                   Psc1Errors(z.filename, "Incorrect physiological file name",
                                              physiological[2][1], zip_args.suffix,
                                              ScanningPsc1)
                        ELSE UNCHANGED <<subject_ids, error_list>>
                   ELSE /\ error_list' = Append(error_list,
                              Error(z.filename, "Unexpected file name in \"Scanning\"", ""))
                        /\ UNCHANGED subject_ids
                /\ zip_files' = Tail(zip_files)
                /\ UNCHANGED <<zip_pc, tempdirs>>
    /\ UNCHANGED <<zip_status, ziptree, zip_todo, zip_dir, actual_tests, extracted>>
    /\ ZipFrame

\* the test of the trials read from a behavioral file: the exception
\* raised, or the errors
TrialsErrors(filename, behavioral_type, trials) ==
    LET last_trial == IF behavioral_type = "mid" THEN 42 ELSE 360
        length == IF behavioral_type = "ft" THEN 24 ELSE 5
    IN  IF behavioral_type \in {"mid", "ss"}
        THEN IF trials = <<>>
             THEN [raised |-> "IndexError", errors |-> <<>>]
             ELSE [raised |-> "no",
                   errors |-> IF trials[Len(trials)] # last_trial
                              THEN <<Error(filename, "Behavioral file contains trials instead of",
                                           behavioral_type)>>
                              ELSE <<>>]
        ELSE [raised |-> "no",
              errors |-> IF Len(trials) # length
                         THEN <<Error(filename, "Behavioral file contains trials instead of",
                                      behavioral_type)>>
                         ELSE <<>>]

\* the 'with TemporaryDirectory()' block of _check_scanning: the file is
\* extracted and read, what was read is checked, the directory is removed
CheckBehavioralFile ==
    /\ unit = "check_zip_content"
    /\ zip_status = "running"
    /\ zip_pc = "behavioral"
    /\ LET z == Head(zip_files)
           behavioral_type == CheckBehavioralName(Basename(z))[1]
           expected_tests == ExpectedTests(zip_args.expected)
           read == z.content
           e0 == IF /\ expected_tests # <<>>
                    /\ expected_tests[1] # {}
                    /\ behavioral_type \notin expected_tests[1]
                 THEN <<Error(z.filename, "Unexpected behavioral file", "")>>
                 ELSE <<>>
           e1 == IF TruthyArg(read.subject_id)
                 THEN Psc1Errors(z.filename, "Incorrect behavioral file content",
                                 read.subject_id[1], zip_args.suffix, ScanningPsc1)
                 ELSE <<Error(z.filename, "Missing subject ID", "")>>
           e2 == TrialsErrors(z.filename, behavioral_type, read.trials)
       IN  IF e2.raised # "no"
           THEN ZipRaise(e2.raised)
           ELSE IF zip_args.date # <<>> /\ read.timestamp = <<>>
           THEN \* timestamp.date() of None
                ZipRaise("AttributeError")
           ELSE /\ error_list' = error_list \o e0 \o e1 \o e2.errors
                      \o (IF zip_args.date # <<>> /\ zip_args.date # read.timestamp
                          THEN <<Error(z.filename, "Date was expected to be", "")>>
                          ELSE <<>>)
                      \o read.errors
                /\ subject_ids' = subject_ids \cup
                      {IF read.subject_id = <<>> THEN NoneId ELSE read.subject_id[1]}
                /\ actual_tests' = IF TruthyArg(read.subject_id)
                                   THEN actual_tests \cup {behavioral_type}
                                   ELSE actual_tests
                /\ tempdirs' = TemporaryDirectoryExit(tempdirs)
                /\ zip_files' = Tail(zip_files)
                /\ zip_pc' = "Scanning"
                /\ UNCHANGED <<zip_status, ziptree, zip_todo, zip_dir>>
    /\ extracted' = Append(extracted, Head(zip_files).filename)
    /\ ZipFrame

\* the end of the loop of _check_scanning and its return, through
\* _check_additional_data, to _check_ziptree
CheckScanningReturn ==
    /\ unit = "check_zip_content"
    /\ zip_status = "running"
    /\ zip_pc = "Scanning"
    /\ zip_files = <<>>
    /\ LET expected_tests == ExpectedTests(zip_args.expected)
           missing_tests ==
              IF expected_tests # <<>>
              THEN SelectSeq(<<"mid", "ft", "ss", "recog">>,
                             LAMBDA x : x \in expected_tests[1] \ actual_tests)
              ELSE <<>>
       IN  error_list' = error_list \o
              [i \in 1..Len(missing_tests) |->
                  Error(ziptree[<<zip_dir[1], ADDITIONAL_DATA, SCANNING>>].filename,
                        "Missing behavioral file", missing_tests[i])]
    /\ zip_pc' = "ImageData"
    /\ UNCHANGED <<zip_status, ziptree, zip_todo, zip_dir, zip_files, subject_ids,
                   actual_tests, tempdirs, extracted>>
    /\ ZipFrame

\* the branch 'ImageData' of _check_ziptree and _check_image_data to the
\* head of its loop over the files
CheckImageData ==
    /\ unit = "check_zip_content"
    /\ zip_status = "running"
    /\ zip_pc = "ImageData"
    /\ LET z == Uppermost
           path == <<zip_dir[1], IMAGE_DATA>>
       IN  IF ~InSeq(IMAGE_DATA, z.directories)
           THEN /\ error_list' = Append(error_list,
                      Error(z.filename \o <<IMAGE_DATA>>,
                            "Folder \"ImageData\" is missing", ""))
                /\ zip_pc' = "uppermost"
                /\ UNCHANGED <<zip_files, tempdirs>>
           ELSE IF Len(Files(ziptree, path)) < 1
           THEN /\ error_list' = Append(error_list,
                      Error(ziptree[path].filename, "Folder is empty", ""))
                /\ zip_pc' = "uppermost"
                /\ UNCHANGED <<zip_files, tempdirs>>
           ELSE /\ error_list' = error_list \o CheckEmptyFiles(ziptree, path)
                /\ tempdirs' = TemporaryDirectoryEnter(tempdirs)
                /\ zip_files' = Files(ziptree, path)
                /\ zip_pc' = "dicom"
    /\ UNCHANGED <<zip_status, ziptree, zip_todo, zip_dir, subject_ids, actual_tests,
                   extracted>>
    /\ ZipFrame

\* the tags _check_image_data looks for, in order
DICOM_TAGS == <<"StudyComments", "ImageComments", "PatientID">>

\* the identifier found in the metadata: <<>> when no tag is there, else
\* <<subject_id>>, the suffix removed
DicomSubjectId(metadata, suffix) ==
    LET I == {i \in 1..Len(DICOM_TAGS) : DICOM_TAGS[i] \in DOMAIN metadata}
    IN  IF I = {} THEN <<>>
        ELSE LET subject_id == metadata[DICOM_TAGS[CHOOSE i \in I : \A j \in I : i <= j]]
             IN  IF Len(suffix) > 0 /\ Last(subject_id, Len(suffix)) = suffix
                 THEN <<ButLast(subject_id, Len(suffix))>>
                 ELSE <<subject_id>>

\* the errors of the identifier check of the metadata of the file f
DicomErrors(f, found, psc1) ==
    IF found = <<>> THEN <<Error(f, "Missing PSC1 code", "")>>
    ELSE IF <<found[1]>> # psc1
    THEN <<Error(f, "PSC1 code was expected to be", "")>>
    ELSE <<>>

\* the ZipInfo of the archive named f, as ZipFile.getinfo finds them
GetInfo(f) ==
    SelectSeq(zip_args.archive.infolist,
              LAMBDA zipinfo : ~zipinfo.is_dir /\ zipinfo.filename = f)

\* one turn of 'for f in files' of _check_image_data: the file is extracted
\* and read_metadata reads it
CheckDicomFile ==
    /\ unit = "check_zip_content"
    /\ zip_status = "running"
    /\ zip_pc = "dicom"
    /\ zip_files # <<>>
    /\ LET f == Head(zip_files)
           info == GetInfo(f)
       IN  IF info = <<>>
           THEN \* z.extract(f, tempdir): there is no item named f
                /\ ZipRaise("KeyError")
                /\ UNCHANGED extracted
           ELSE /\ extracted' = Append(extracted, f)
                /\ LET read == info[1].content
                   IN  IF read.raised = "IOError"
                       THEN \* continue
                            /\ zip_files' = Tail(zip_files)
                            /\ UNCHANGED <<zip_status, zip_pc, ziptree, zip_todo, zip_dir,
                                           error_list, subject_ids, actual_tests, tempdirs>>
                       ELSE IF read.raised # "no"
                       THEN ZipRaise(read.raised)
                       ELSE IF read.metadata # <<>> /\ zip_args.suffix = <<>>
                                 /\ \E i \in 1..Len(DICOM_TAGS) :
                                       DICOM_TAGS[i] \in DOMAIN read.metadata
                       THEN \* len(None)
                            ZipRaise("TypeError")
                       ELSE LET found == DicomSubjectId(read.metadata,
                                            IF zip_args.suffix = <<>> THEN <<>>
                                            ELSE zip_args.suffix[1])
                            IN  /\ error_list' = error_list \o
                                      DicomErrors(f, found, zip_args.psc1)
                                /\ subject_ids' = subject_ids \cup
                                      (IF found = <<>> THEN {} ELSE {found[1]})
                                \* break
                                /\ tempdirs' = TemporaryDirectoryExit(tempdirs)
                                /\ zip_files' = <<>>
                                /\ zip_pc' = "uppermost"
                                /\ UNCHANGED <<zip_status, ziptree, zip_todo, zip_dir,
                                               actual_tests>>
    /\ ZipFrame

\* the 'else' of 'for f in files' of _check_image_data: no file was read
CheckImageDataUnread ==
    /\ unit = "check_zip_content"
    /\ zip_status = "running"
    /\ zip_pc = "dicom"
    /\ zip_files = <<>>
    /\ LET files == Files(ziptree, <<zip_dir[1], IMAGE_DATA>>)
       IN  error_list' = Append(error_list,
              Error(files[Len(files)], "Unable to read DICOM files in dataset", ""))
    /\ tempdirs' = TemporaryDirectoryExit(tempdirs)
    /\ zip_pc' = "uppermost"
    /\ UNCHANGED <<zip_status, ziptree, zip_todo, zip_dir, zip_files, subject_ids,
                   actual_tests, extracted>>
    /\ ZipFrame

\* the end of the loop of _check_ziptree: 'return subject_ids, error_list'
CheckZiptreeReturn ==
    /\ unit = "check_zip_content"
    /\ zip_status = "running"
    /\ zip_pc = "uppermost"
    /\ zip_todo = <<>>
    /\ zip_status' = "returned"
    /\ UNCHANGED <<zip_pc, ziptree, zip_todo, zip_dir, zip_files, error_list,
                   subject_ids, actual_tests, tempdirs, extracted>>
    /\ ZipFrame

(***************************************************************************)
(* The archives checked and the arguments of the calls                     *)
(***************************************************************************)
\* the largest number of files in the folder ImageData of an archive
MaxImageFiles == 2

FU3 == <<"F","U","3">>

\* the ZipInfo of a folder and of a file; content is what the reader of
\* the file returns or raises
ZipInfoDir(filename) ==
    [filename |-> filename, is_dir |-> TRUE, file_size |-> 0, content |-> <<>>]

ZipInfoFile(filename, file_size, content) ==
    [filename |-> filename, is_dir |-> FALSE, file_size |-> file_size, content |-> content]

\* what read_mid, read_ft, read_ss, read_recog return
Behavioral(subject_id, when, trials) ==
    [subject_id |-> subject_id, timestamp |-> when, trials |-> trials,
     errors |-> <<>>]

\* what read_metadata returns or raises
Dicom(raised, metadata) == [raised |-> raised, metadata |-> metadata]

ZipDate == <<2015, 3, 2>>

\* a file of the MID task of the subject subject_id, well formed
MidFile(d, name_id, subject_id) ==
    ZipInfoFile(<<d, ADDITIONAL_DATA, SCANNING, <<"m","i","d","_">> \o name_id \o <<".","c","s","v">>>>, 1,
                Behavioral(<<subject_id>>, <<ZipDate>>, <<41, 42>>))

\* a file of the folder Scanning of the name f
ScanningFile(d, f, content) ==
    ZipInfoFile(<<d, ADDITIONAL_DATA, SCANNING, f>>, 1, content)

ImageKinds == {"right", "wrong", "untagged", "IOError", "AttributeError"}

\* the i-th file of the folder ImageData
ImageFile(d, i, kind, subject_id) ==
    ZipInfoFile(<<d, IMAGE_DATA, NatToStr(i) \o <<".","d","c","m">>>>, 1,
        CASE kind = "right" -> Dicom("no", [x \in {"PatientID"} |-> subject_id])
          [] kind = "wrong" -> Dicom("no", [x \in {"ImageComments", "PatientID"} |->
                                                IF x = "PatientID" THEN subject_id
                                                ELSE CodeC \o FU3])
          [] kind = "untagged" -> Dicom("no", <<>>)
          [] OTHER -> Dicom(kind, <<>>))

ImageKindSeqs ==
    UNION {[1..n -> ImageKinds] : n \in 1..MaxImageFiles}

ImageFiles(d, kinds, subject_id) ==
    [i \in 1..Len(kinds) |-> ImageFile(d, i, kinds[i], subject_id)]

\* an archive of the entries infolist
Archive(infolist) == [basename |-> <<"a","r","c","h","i","v","e",".","z","i","p">>, size |-> 1, infolist |-> infolist]

\* the archive of one uppermost folder d with the folders AdditionalData,
\* Scanning and ImageData and the files scanning and images
Standard(d, scanning, images) ==
    Archive(<<ZipInfoDir(<<d>>), ZipInfoDir(<<d, ADDITIONAL_DATA>>),
              ZipInfoDir(<<d, ADDITIONAL_DATA, SCANNING>>)>>
            \o scanning
            \o <<ZipInfoDir(<<d, IMAGE_DATA>>)>>
            \o images)

SubjectA == CodeA \o FU3

SubjectC == CodeC \o FU3

\* the files of Scanning tried with the uppermost folder SubjectA
ScanningChoices ==
    LET d == SubjectA
    IN  {<<MidFile(d, SubjectC, SubjectA)>>,
         <<MidFile(d, SubjectA, SubjectC)>>,
         <<MidFile(d, SubjectA, SubjectA), MidFile(d, SubjectA, SubjectA)>>,
         <<MidFile(d, SubjectA, SubjectA), MidFile(d, SubjectC, SubjectC)>>,
         <<MidFile(d, <<>>, SubjectA)>>,
         <<ScanningFile(d, <<"m","i","d","_">> \o SubjectA \o <<".","c","s","v">>,
                        Behavioral(<<SubjectA>>, <<ZipDate>>, <<>>))>>,
         <<ScanningFile(d, <<"m","i","d","_">> \o SubjectA \o <<".","c","s","v">>,
                        Behavioral(<<SubjectA>>, <<>>, <<42>>))>>,
         <<ScanningFile(d, <<"m","i","d","_">> \o SubjectA \o <<".","c","s","v">>,
                        Behavioral(<<>>, << <<2015, 3, 3>> >>, <<40>>))>>,
         <<ScanningFile(d, <<"f","t","_">> \o SubjectA \o <<".","c","s","v">>,
                        Behavioral(<<SubjectA>>, <<ZipDate>>, <<1, 2>>))>>,
         <<ScanningFile(d, <<"r","e","c","o","g","_">> \o SubjectA \o <<".","c","s","v">>,
                        Behavioral(<<SubjectA>>, <<ZipDate>>, <<1, 2, 3, 4, 5>>))>>,
         <<ScanningFile(d, <<"s","s","_">> \o SubjectA \o <<".","c","s","v">>,
                        Behavioral(<<SubjectA>>, <<ZipDate>>, <<360>>))>>,
         <<ScanningFile(d, SubjectA \o <<"_","r","e","s","t",".","e","c","g">>, <<>>),
           ScanningFile(d, SubjectC \o <<".","p","u","l","s">>, <<>>),
           ScanningFile(d, <<"S","C","A","N","P","H","Y","S","L","O","G","2","0","1","4","0","4","0","9","1","1","2","2","2","4",".","l","o","g">>, <<>>),
           ScanningFile(d, <<"I","m","a","g","e","n","B","R","e","s","t","_","R","e","s","t","i","n","g","_","1","_","R","a","w","_">> \o SubjectA \o <<".","t","x","t">>, <<>>),
           ScanningFile(d, <<"n","o","t","e","s",".","d","o","c">>, <<>>)>>,
         <<>>}

\* the archives checked
Archives ==
    \* the files of ImageData, read or not
    {Standard(SubjectA, <<MidFile(SubjectA, SubjectA, SubjectA)>>,
              ImageFiles(SubjectA, kinds, SubjectA)) : kinds \in ImageKindSeqs}
    \* the name of the uppermost folder, carried by every file
    \cup {Standard(d, <<MidFile(d, d, d)>>, ImageFiles(d, <<"right">>, d)) :
            d \in {CodeA, SubjectC, <<"a","b","c">>, CodeA \o <<"F","U","2">>}}
    \* the name of the uppermost folder alone
    \cup {Standard(d, <<MidFile(d, SubjectA, SubjectA)>>,
                   ImageFiles(d, <<"right">>, SubjectA)) :
            d \in {<<"a","b","c">>, SubjectC}}
    \* the files of Scanning
    \cup {Standard(SubjectA, scanning, ImageFiles(SubjectA, <<"right">>, SubjectA)) :
            scanning \in ScanningChoices}
    \* the shape of the tree
    \cup {[basename |-> <<"a","r","c","h","i","v","e",".","z","i","p">>, size |-> 0, infolist |-> <<>>],
          Archive(<<>>),
          Archive(<<ZipInfoFile(<<<<"r","e","a","d","m","e",".","t","x","t">>>>, 1, <<>>)>>),
          \* two uppermost folders
          Archive(Standard(SubjectA, <<MidFile(SubjectA, SubjectA, SubjectA)>>,
                           ImageFiles(SubjectA, <<"right">>, SubjectA)).infolist
                  \o Standard(SubjectC, <<MidFile(SubjectC, SubjectC, SubjectC)>>,
                              ImageFiles(SubjectC, <<"right">>, SubjectC)).infolist),
          Archive(<<ZipInfoDir(<<SubjectA>>), ZipInfoDir(<<SubjectC>>)>>),
          \* folders missing, or not expected
          Archive(<<ZipInfoDir(<<SubjectA>>)>>),
          Archive(<<ZipInfoDir(<<SubjectA>>), ZipInfoDir(<<SubjectA, ADDITIONAL_DATA>>),
                    ZipInfoDir(<<SubjectA, IMAGE_DATA>>)>>),
          Archive(<<ZipInfoDir(<<SubjectA>>),
                    ZipInfoFile(<<SubjectA, <<"r","e","a","d","m","e",".","t","x","t">>>>, 1, <<>>),
                    ZipInfoDir(<<SubjectA, <<"O","t","h","e","r">>>>),
                    ZipInfoDir(<<SubjectA, ADDITIONAL_DATA>>),
                    ZipInfoDir(<<SubjectA, ADDITIONAL_DATA, <<"O","t","h","e","r">>>>),
                    ZipInfoDir(<<SubjectA, ADDITIONAL_DATA, SCANNING>>),
                    ZipInfoDir(<<SubjectA, ADDITIONAL_DATA, SCANNING, <<"O","t","h","e","r">>>>),
                    ZipInfoDir(<<SubjectA, IMAGE_DATA>>),
                    ZipInfoDir(<<SubjectA, IMAGE_DATA, <<"T","1">>>>),
                    ZipInfoFile(<<SubjectA, IMAGE_DATA, <<"T","1">>, <<"1",".","d","c","m">>>>, 0,
                                Dicom("no", [x \in {"StudyComments"} |-> SubjectA]))>>),
          \* no entry for the folders
          Archive(<<MidFile(SubjectA, SubjectA, SubjectA),
                    ImageFile(SubjectA, 1, "right", SubjectA)>>)}

\* the arguments timepoint, psc1, date and expected of the calls
Timepoints == {<<>>, <<FU3>>}

ExpectedCodes == {<<>>, <<CodeA>>}

Dates == {<<>>, <<ZipDate>>}

ExpectedChoices ==
    {<<>>, <<[x \in {"mid", "ft", "ss", "recog"} |->
                IF x \in {"mid", "ft"} THEN "Good" ELSE "Missing"]>>}

(***************************************************************************)
(* mri/imagen_sample_FU3_mri_deidentify.py: deidentify                     *)
(***************************************************************************)
\* the datasets handed to deidentify: the code, whether the session was
\* processed before ("no", "newer" than the ZIP file, or "older"), what
\* extractall raises and what dcm2niix returns or raises
Datasets ==
    [psc1 : Codes,
     processed : {"no", "newer", "older"},
     extractall : {"no", "BadZipFile", "RuntimeError"},
     dcm2niix : {"0", "1", "FileNotFoundError"}]

\* deidentify(timepoint, psc1, zip_path, bids_path) to the 'with
\* tempfile.TemporaryDirectory(prefix=prefix)' block
Deidentify(dataset) ==
    /\ unit = "none"
    /\ zip_status = "idle"
    /\ unit' = "deidentify"
    /\ zip_args' = dataset
    /\ IF ~DictHas(PSC2_FROM_PSC1, dataset.psc1)
       THEN \* PSC2_FROM_PSC1[psc1]
            /\ zip_status' = "KeyError"
            /\ UNCHANGED <<zip_pc, tempdirs>>
       ELSE IF dataset.processed = "newer"
       THEN \* skip ZIP files that have already been processed
            /\ zip_status' = "returned"
            /\ UNCHANGED <<zip_pc, tempdirs>>
       ELSE /\ zip_status' = "running"
            /\ zip_pc' = "extractall"
            /\ tempdirs' = TemporaryDirectoryEnter(tempdirs)
    /\ UNCHANGED <<ziptree, zip_todo, zip_dir, zip_files, error_list, subject_ids,
                   actual_tests, extracted>>
    /\ UNCHANGED ZipOthers

\* the 'with' block of deidentify: the ZIP file is unpacked, the session
\* folder is made and dcm2niix is run; the directory is removed
DeidentifyUnpack ==
    /\ unit = "deidentify"
    /\ zip_status = "running"
    /\ zip_pc = "extractall"
    /\ IF zip_args.extractall = "BadZipFile"
       THEN \* corrupt ZIP file: return
            /\ zip_status' = "returned"
            /\ error_list' = Append(error_list, Error(<<>>, "corrupt ZIP file", ""))
            /\ UNCHANGED zip_pc
       ELSE IF zip_args.extractall # "no"
       THEN /\ zip_status' = zip_args.extractall
            /\ UNCHANGED <<zip_pc, error_list>>
       ELSE IF zip_args.processed = "older"
       THEN \* os.makedirs(out_ses_path) of a folder that exists
            /\ zip_status' = "FileExistsError"
            /\ UNCHANGED <<zip_pc, error_list>>
       ELSE IF zip_args.dcm2niix = "FileNotFoundError"
       THEN /\ zip_status' = zip_args.dcm2niix
            /\ UNCHANGED <<zip_pc, error_list>>
       ELSE /\ zip_pc' = "status"
            /\ error_list' = IF zip_args.dcm2niix # "0"
                             THEN Append(error_list, Error(<<>>, "dcm2niix failed", ""))
                             ELSE error_list
            /\ UNCHANGED zip_status
    /\ tempdirs' = TemporaryDirectoryExit(tempdirs)
    /\ extracted' = Append(extracted, <<>>)
    /\ UNCHANGED <<ziptree, zip_todo, zip_dir, zip_files, subject_ids, actual_tests>>
    /\ ZipFrame

\* the end of deidentify: the session folder is removed if dcm2niix failed
DeidentifyReturn ==
    /\ unit = "deidentify"
    /\ zip_status = "running"
    /\ zip_pc = "status"
    /\ zip_status' = "returned"
    /\ UNCHANGED <<zip_pc, ziptree, zip_todo, zip_dir, zip_files, error_list,
                   subject_ids, actual_tests, tempdirs, extracted>>
    /\ ZipFrame

(***************************************************************************)
(* cantab/imagen_cantab_extract_deidentify.py: list_datasets_BL,           *)
(* dataset_BL, process_dataset_BL                                          *)
(***************************************************************************)
WORKER_PROCESSES == 8

\* datasets listed in one directory
MaxDatasets == 3

\* a <= b of two tuples of integers of the same length
TupleLeq(a, b) ==
    \/ a = b
    \/ \E i \in 1..Len(a) :
          /\ a[i] < b[i]
          /\ \A j \in 1..(i - 1) : a[j] = b[j]

IntLeq(a, b) == a <= b

\* a <= b of two keys: datetimes when tuples is TRUE, else increments
KeyOrder(tuples, a, b) == IF tuples THEN TupleLeq(a, b) ELSE IntLeq(a, b)

\* datetime.strptime(s, '%Y-%m-%d_%H:%M:%S'), or with '%Y-%d-%m_%H:%M:%S'
\* if dayFirst, of a text of 19 characters or of no digit: <<>> on
\* ValueError, else <<<<year, month, day, hour, minute, second>>>>
StrptimeBL(s, dayFirst) ==
    IF /\ Len(s) = 19
       /\ \A i \in {5, 8} : s[i] = "-"
       /\ s[11] = "_"
       /\ \A i \in {14, 17} : s[i] = ":"
       /\ \A i \in (1..19) \ {5, 8, 11, 14, 17} : s[i] \in Digits
    THEN LET year == StrToInt(SubSeq(s, 1, 4))
             a == StrToInt(SubSeq(s, 6, 7))
             b == StrToInt(SubSeq(s, 9, 10))
             month == IF dayFirst THEN b ELSE a
             day == IF dayFirst THEN a ELSE b
             hour == StrToInt(SubSeq(s, 12, 13))
             minute == StrToInt(SubSeq(s, 15, 16))
             second == StrToInt(SubSeq(s, 18, 19))
         IN  IF /\ year >= 1
                /\ ValidDate(year, month, day)
                /\ hour < 24 /\ minute < 60 /\ second < 62
             THEN << <<year, month, day, hour, minute, second>> >>
             ELSE <<>>
    ELSE <<>>

\* _extract_psc1_timestamp_BL(path): <<psc1, timestamp>>, each <<>> for None
ExtractPsc1TimestampBL(basename) ==
    LET psc1 == SubSeq(basename, 1, IF Len(basename) < 12 THEN Len(basename) ELSE 12)
        stamp == SubSeq(basename, 14, IF Len(basename) < 32 THEN Len(basename) ELSE 32)
    IN  IF Len(psc1) < 12 \/ ~IsDigits(psc1) THEN << <<>>, <<>> >>
        ELSE IF StrptimeBL(stamp, FALSE) # <<>>
        THEN <<<<psc1>>, StrptimeBL(stamp, FALSE)>>
        ELSE <<<<psc1>>, StrptimeBL(stamp, TRUE)>>

\* datasets.setdefault(psc1, {})[timestamp] = dataset_path
DatasetsSet(d, psc1, key, dataset_path) ==
    DictSet(d, psc1,
            DictSet(IF DictHas(d, psc1) THEN DictGet(d, psc1) ELSE <<>>,
                    key, dataset_path))

\* timestamps[the key listed first]
Oldest(timestamps, tuples) == timestamps[1][2]

\* timestamps[max(timestamps.keys())]
Latest(timestamps, tuples) ==
    DictGet(timestamps,
            CHOOSE k \in DictKeys(timestamps) :
                \A j \in DictKeys(timestamps) : KeyOrder(tuples, j, k))

\* [(psc1, timestamps[max(timestamps.keys())]) for ... in datasets.items()]
KeepLatest(d, tuples) ==
    [i \in 1..Len(d) |-> <<d[i][1], Latest(d[i][2], tuples)>>]

\* the tarballs of the directories of the centers: the center, the name
\* and what tarfile.open finds
Tarball(center, psc1, stamp, tar) ==
    [center |-> center, basename |-> psc1 \o <<"_">> \o stamp \o <<".","0",".","t","a","r",".","g","z">>,
     content |-> tar]

TarballPool ==
    {Tarball("LONDON", CodeA, <<"2","0","1","0","-","0","5","-","0","6","_","1","0",":","0","0",":","0","0">>, "datasheet"),
     Tarball("LONDON", CodeA, <<"2","0","1","1","-","0","1","-","0","2","_","0","9",":","3","0",":","0","0">>, "ReadError"),
     Tarball("LONDON", CodeA, <<"2","0","1","0","-","2","5","-","1","2","_","1","0",":","0","0",":","0","0">>, "datasheet"),
     Tarball("PARIS", CodeA, <<"2","0","1","0","-","0","5","-","0","6","_","1","0",":","0","0",":","0","0">>, "missing"),
     Tarball("PARIS", CodeC, <<"2","0","1","0","-","0","5","-","0","6","_","1","0",":","0","0",":","0","0">>, "datasheet"),
     Tarball("PARIS", CodeC, <<"y","e","s","t","e","r","d","a","y"," ","a","t"," ","t","e","n"," ","o","'","c","l","o","c","k">>, "datasheet"),
     Tarball("PARIS", <<"d","a","t","a","s","h","e","e","t">>, <<"2","0","1","0","-","0","5","-","0","6","_","1","0",":","0","0",":","0","0">>, "datasheet")}

\* the order of the loop over the centers
CenterRank(center) == IF center = "LONDON" THEN 1 ELSE 7

\* what the loops over the centers and os.listdir may give: the tarballs
\* of a center in any order, the centers in the order of the loop
ListingsBL ==
    {s \in UNION {[1..n -> TarballPool] : n \in 0..MaxDatasets} :
        /\ \A i, j \in 1..Len(s) : i # j => s[i] # s[j]
        /\ \A i, j \in 1..Len(s) :
              i < j => CenterRank(s[i].center) <= CenterRank(s[j].center)}

\* os.path.join(center_path, dataset)
DatasetPathBL(tarball) == <<tarball.center, tarball.basename>>

\* what a step of the function at work leaves alone
JobFrame == UNCHANGED <<job, job_args>> /\ UNCHANGED JobOthers

\* dataset_BL(path), to the loop of list_datasets_BL
DatasetBL ==
    /\ job = "none"
    /\ job_status = "idle"
    /\ job' = "dataset_BL"
    /\ \E s \in ListingsBL :
          /\ job_args' = [path |-> s]
          /\ listing' = s
    /\ job_status' = "listing"
    /\ UNCHANGED <<datasets, todo_list, results, opened>>
    /\ UNCHANGED JobOthers

\* one turn of 'for dataset in os.listdir(center_path)' of list_datasets_BL
ListDatasetsBL ==
    /\ job = "dataset_BL"
    /\ job_status = "listing"
    /\ listing # <<>>
    /\ LET dataset == Head(listing)
           found == ExtractPsc1TimestampBL(dataset.basename)
       IN  datasets' = IF found[1] # <<>> /\ found[2] # <<>>
                       THEN DatasetsSet(datasets, found[1][1], found[2][1],
                                        DatasetPathBL(dataset))
                       ELSE datasets
    /\ listing' = Tail(listing)
    /\ UNCHANGED <<job_status, todo_list, results, opened>>
    /\ JobFrame

\* the return of list_datasets_BL and dataset_BL to pool.map
ListDatasetsBLReturn ==
    /\ job = "dataset_BL"
    /\ job_status = "listing"
    /\ listing = <<>>
    /\ todo_list' = KeepLatest(datasets, TRUE)
    /\ results' = [i \in 1..Len(todo_list') |-> [state |-> "queued"]]
    /\ job_status' = "mapping"
    /\ UNCHANGED <<listing, datasets, opened>>
    /\ JobFrame

\* the tarball of a path
TarballAt(dataset_path) ==
    CHOOSE tarball \in TarballPool : DatasetPathBL(tarball) = dataset_path

\* process_dataset_BL(arguments): the exception of tarfile.open, None
\* without a datasheet, or the rows process_cantab reads in the datasheet
ProcessDatasetBL(arguments) ==
    LET tarball == TarballAt(arguments[2])
    IN  IF tarball.content = "ReadError" THEN [raised |-> "ReadError"]
        ELSE IF tarball.content = "missing" THEN [raised |-> "no", value |-> <<>>]
        ELSE [raised |-> "no", value |-> <<arguments[2]>>]

(***************************************************************************)
(* onsets/imagen_onsets_extract_deidentify.py: list_datasets,              *)
(* process_datasets, process_dataset; the MRI script: list_datasets        *)
(***************************************************************************)
RECURSIVE SplitMax(_, _, _)
\* s.split(sep, maxsplit); maxsplit is -1 for s.split(sep)
SplitMax(s, sep, maxsplit) ==
    LET I == {i \in 1..(Len(s) - Len(sep) + 1) :
                 SubSeq(s, i, i + Len(sep) - 1) = sep}
    IN  IF maxsplit = 0 \/ I = {} THEN <<s>>
        ELSE LET i == CHOOSE i \in I : \A j \in I : i <= j
             IN  <<SubSeq(s, 1, i - 1)>>
                 \o SplitMax(SubSeq(s, i + Len(sep), Len(s)), sep,
                             IF maxsplit < 0 THEN maxsplit ELSE maxsplit - 1)

\* os.path.splitext(path) of a name that starts with no dot: <<root, ext>>
SplitExt(path) ==
    IF RSplitDot(path)[2] = <<>> THEN <<path, <<>> >>
    ELSE <<RSplitDot(path)[1], <<".">> \o RSplitDot(path)[2][1]>>

\* s[i:j] of Python, i and j counted from 0
Slice(s, i, j) ==
    SubSeq(s, i + 1, IF j < Len(s) THEN j ELSE Len(s))

\* _extract_psc1_timestamp(path) of a name list_datasets has let through:
\* <<psc1, increment>>
ExtractPsc1Timestamp(path) ==
    LET split == SplitMax(SplitExt(path)[1], <<"_">>, 2)
    IN  <<Slice(split[3], 0, 12), StrToInt(split[1])>>

\* the files of the quarantine directory: the name, the time of the last
\* change and what ZipFile finds
Quarantine(increment, suffix, mtime, zip) ==
    [basename |-> increment \o suffix, mtime |-> mtime, content |-> zip]

QuarantinePool ==
    {Quarantine(<<"2">>, <<"_","d","a","t","a","_">> \o CodeA \o FU3 \o <<"a","1","b","2","c","3",".","z","i","p">>, 50, "behavioural"),
     Quarantine(<<"1","0">>, <<"_","d","a","t","a","_">> \o CodeA \o FU3 \o <<"d","4","e","5","f","6",".","z","i","p">>, 40, "behavioural"),
     Quarantine(<<"3">>, <<"_","d","a","t","a","_">> \o CodeA \o FU3 \o <<"g","7","h","8","i","9",".","z","i","p">>, 60, "BadZipFile"),
     Quarantine(<<"4">>, <<"_","d","a","t","a","_">> \o CodeC \o FU3 \o <<"m","3","n","4","o","5",".","z","i","p">>, 50, "behavioural"),
     Quarantine(<<"5">>, <<"_","d","a","t","a","_">> \o CodeA \o <<"S","B">> \o <<"p","6","q","7","r","8",".","z","i","p">>, 50, "behavioural"),
     Quarantine(<<"6">>, <<"_","d","a","t","a","_">> \o CodeA \o <<"s","9","t","0","u","1",".","z","i","p">>, 50, "behavioural"),
     Quarantine(<<"7">>, <<"_","i","n","f","o","_">> \o CodeA \o FU3 \o <<"v","2","w","3","x","4",".","z","i","p">>, 50, "behavioural"),
     Quarantine(<<"r","e","a","d","m","e">>, <<".","t","x","t">>, 50, "behavioural")}

\* what os.listdir may give: the files of the directory in any order
ListingsQuarantine ==
    {s \in UNION {[1..n -> QuarantinePool] : n \in 0..MaxDatasets} :
        \A i, j \in 1..Len(s) : i # j => s[i] # s[j]}

\* process_datasets(path, timepoint), to the loop of list_datasets
ProcessDatasets(timepoint) ==
    /\ job = "none"
    /\ job_status = "idle"
    /\ job' = "process_datasets"
    /\ job_status' = "listing"
    /\ \E s \in ListingsQuarantine :
          /\ job_args' = [path |-> s, timepoint |-> timepoint]
          /\ listing' = s
    /\ UNCHANGED <<datasets, todo_list, results, opened>>
    /\ UNCHANGED JobOthers

\* one turn of 'for dataset in os.listdir(path)' of list_datasets
ListDatasets ==
    /\ job = "process_datasets"
    /\ job_status = "listing"
    /\ listing # <<>>
    /\ LET dataset == Head(listing).basename
           root == SplitExt(dataset)[1]
           ext == SplitExt(dataset)[2]
           split == SplitMax(root, <<"_">>, 2)
           timepoint == job_args.timepoint
       IN  IF ext # <<".","z","i","p">>
           THEN UNCHANGED <<job_status, datasets>>
           ELSE IF Len(split) # 3
           THEN \* increment, data, psc1 = root.split('_', 2)
                /\ job_status' = "ValueError"
                /\ UNCHANGED datasets
           ELSE IF ~ /\ IsDigits(split[1])
                     /\ split[2] = <<"d","a","t","a">>
                     /\ IsDigits(Slice(split[3], 0, 12))
           THEN /\ job_status' = "AssertionError"
                /\ UNCHANGED datasets
           ELSE IF Slice(split[3], 12, 12 + Len(timepoint)) # timepoint
           THEN UNCHANGED <<job_status, datasets>>
           ELSE /\ datasets' = DatasetsSet(datasets,
                                           ExtractPsc1Timestamp(dataset)[1],
                                           ExtractPsc1Timestamp(dataset)[2],
                                           dataset)
                /\ UNCHANGED job_status
    /\ listing' = Tail(listing)
    /\ UNCHANGED <<todo_list, results, opened>>
    /\ JobFrame

\* the return of list_datasets and process_datasets to pool.map
ListDatasetsReturn ==
    /\ job = "process_datasets"
    /\ job_status = "listing"
    /\ listing = <<>>
    /\ LET kept == KeepLatest(datasets, FALSE)
       IN  IF \E i \in 1..Len(kept) : ~DictHas(PSC2_FROM_PSC1, kept[i][1])
           THEN \* PSC2_FROM_PSC1[psc1]
                /\ job_status' = "KeyError"
                /\ UNCHANGED <<todo_list, results>>
           ELSE /\ todo_list' = [i \in 1..Len(kept) |->
                                    <<job_args.timepoint, kept[i][1],
                                      DictGet(PSC2_FROM_PSC1, kept[i][1]), kept[i][2]>>]
                /\ results' = [i \in 1..Len(kept) |-> [state |-> "queued"]]
                /\ job_status' = "mapping"
    /\ UNCHANGED <<listing, datasets, opened>>
    /\ JobFrame

\* the file of the quarantine directory of a name
QuarantineAt(dataset_path) ==
    CHOOSE q \in QuarantinePool : q.basename = dataset_path

\* process_dataset(arguments): the exception of ZipFile, or None
ProcessDataset(arguments) ==
    IF QuarantineAt(arguments[4]).content = "BadZipFile"
    THEN [raised |-> "BadZipFile"]
    ELSE [raised |-> "no", value |-> <<>>]

\* quarantine_filename_semantics(filename): the exception raised, or the
\* increment, the code and the timepoint
QuarantineFilenameSemantics(filename) ==
    LET root == SplitExt(filename)[1]
        split == SplitMax(root, <<"_","d","a","t","a","_">>, -1)
        psc1 == ButLast(split[2], IF Len(split[2]) < 6 THEN Len(split[2]) ELSE 6)
    IN  IF Len(split) # 2 \/ ~IsDigits(split[1])
        THEN \* increment, suffix = root.split('_data_'); int(increment)
             [raised |-> "ValueError"]
        ELSE IF Len(psc1) > 12
        THEN [raised |-> "no", increment |-> StrToInt(split[1]),
              psc1 |-> Slice(psc1, 0, 12), timepoint |-> Slice(psc1, 12, Len(psc1))]
        ELSE \* return increment, psc1, timepoint
             [raised |-> "UnboundLocalError"]

\* the test of list_datasets that keeps the ZIP file already in datasets
KeepsOld(increment, mtime, old) ==
    increment <= old[2] \/ mtime <= old[3]

\* 'compare increment/timestamp of ZIP files, keep most recent' of
\* list_datasets: datasets after the turn of the loop on zip_file
MostRecentKept(d, zip_file, semantics) ==
    LET timepoint == IF DictHas(d, semantics.timepoint)
                     THEN DictGet(d, semantics.timepoint)
                     ELSE <<>>
    IN  IF /\ DictHas(timepoint, semantics.psc1)
           /\ KeepsOld(semantics.increment, zip_file.mtime,
                       DictGet(timepoint, semantics.psc1))
        THEN DictSet(d, semantics.timepoint, timepoint)
        ELSE DictSet(d, semantics.timepoint,
                     DictSet(timepoint, semantics.psc1,
                             <<zip_file.basename, semantics.increment,
                               zip_file.mtime>>))

\* main of the MRI script, to the loop of list_datasets
MriMain ==
    /\ job = "none"
    /\ job_status = "idle"
    /\ job' = "main"
    /\ \E s \in ListingsQuarantine :
          /\ job_args' = [path |-> s]
          /\ listing' = s
    /\ job_status' = "listing"
    /\ UNCHANGED <<datasets, todo_list, results, opened>>
    /\ UNCHANGED JobOthers

\* one turn of 'for zip_file in os.listdir(path)' of list_datasets
MriListDatasets ==
    /\ job = "main"
    /\ job_status = "listing"
    /\ listing # <<>>
    /\ LET zip_file == Head(listing)
           ext == SplitExt(zip_file.basename)[2]
           semantics == QuarantineFilenameSemantics(zip_file.basename)
       IN  IF ext # <<".","z","i","p">> \/ zip_file.content = "BadZipFile"
           THEN UNCHANGED <<job_status, datasets>>
           ELSE IF semantics.raised # "no"
           THEN /\ job_status' = semantics.raised
                /\ UNCHANGED datasets
           ELSE /\ datasets' = MostRecentKept(datasets, zip_file, semantics)
                /\ UNCHANGED job_status
    /\ listing' = Tail(listing)
    /\ UNCHANGED <<todo_list, results, opened>>
    /\ JobFrame

\* the return of list_datasets to main
MriListDatasetsReturn ==
    /\ job = "main"
    /\ job_status = "listing"
    /\ listing = <<>>
    /\ job_status' = "returned"
    /\ UNCHANGED <<listing, datasets, todo_list, results, opened>>
    /\ JobFrame

(***************************************************************************)
(* multiprocessing.Pool.map, as dataset_BL and process_datasets call it    *)
(***************************************************************************)
\* the function handed to pool.map
WorkerFunction(arguments) ==
    IF job = "dataset_BL" THEN ProcessDatasetBL(arguments)
    ELSE ProcessDataset(arguments)

\* a process of the pool takes the i-th item of todo_list and opens its
\* dataset
PoolStart(i) ==
    /\ job_status = "mapping"
    /\ i <= Len(todo_list)
    /\ results[i].state = "queued"
    /\ Cardinality({j \in 1..Len(results) : results[j].state = "running"})
          < WORKER_PROCESSES
    /\ results' = [results EXCEPT ![i] = [state |-> "running"]]
    /\ opened' = opened \cup {todo_list[i][Len(todo_list[i])]}
    /\ UNCHANGED <<job_status, listing, datasets, todo_list>>
    /\ JobFrame

\* the call of the worker function on the i-th item ends, by its return
\* or by an exception
PoolFinish(i) ==
    /\ job_status = "mapping"
    /\ i <= Len(todo_list)
    /\ results[i].state = "running"
    /\ results' = [results EXCEPT ![i] =
                      [state |-> "done", outcome |-> WorkerFunction(todo_list[i])]]
    /\ UNCHANGED <<job_status, listing, datasets, todo_list, opened>>
    /\ JobFrame

\* the call of the worker function on the i-th item has raised
Failed(i) == results[i].state = "done" /\ results[i].outcome.raised # "no"

\* pool.map returns the results of every item, and the function at work
\* returns its own: dict(zip(psc1, results)) of dataset_BL
PoolMapReturn ==
    /\ job_status = "mapping"
    /\ \A i \in 1..Len(results) : results[i].state = "done" /\ ~Failed(i)
    /\ IF job = "dataset_BL" /\ todo_list = <<>>
       THEN \* psc1, path = zip(*todo_list)
            /\ job_status' = "ValueError"
            /\ results' = <<>>
       ELSE /\ job_status' = "returned"
            /\ results' = results
    /\ UNCHANGED <<listing, datasets, todo_list, opened>>
    /\ JobFrame

\* pool.map raises the exception of an item that has failed, at once or
\* once every item is done, and no result is returned
PoolMapRaise ==
    /\ job_status = "mapping"
    /\ \E i \in 1..Len(results) :
          /\ Failed(i)
          /\ job_status' = results[i].outcome.raised
    /\ results' = <<>>
    /\ UNCHANGED <<listing, datasets, todo_list, opened>>
    /\ JobFrame

(***************************************************************************)
(* The end of the file at work                                             *)
(***************************************************************************)
\* the scripts that write the rows as they come have nothing left to do
AnonClose ==
    /\ handler \in {"dawba", "onsets", "lsrc2", "psytools_csv", "process_csv"}
    /\ anon_status = "running"
    /\ anon_status' = "idle"
    /\ handler' = "none"
    /\ UNCHANGED <<header, rec_in, rec_out, rec_log, timestamp, n_done, pending, written>>
    /\ UNCHANGED AnonOthers

(***************************************************************************)
(* Calls of the functions of the library: sanity/imaging.py and            *)
(* sanity/cantab.py, _check_psc1                                           *)
(***************************************************************************)
\* the identifiers _check_psc1 is called with
CheckedIdentifiers ==
    {CodeA, CodeA \o FU3, CodeA \o FU3 \o FU3, CodeA \o <<"S","B">>, CodeA \o <<"x">> \o FU3,
     CodeB \o FU3, CodeC \o FU3, <<"0","1","2","3","4","5","6","7","8","9","0">> \o FU3, <<"0","1","2","3","4","5","6","7","8","9","0","1","2">> \o FU3,
     CodeA \o <<"0","1">>, FU3, <<>>, <<"a","b","c">>}

\* the timepoint suffixes: None, '', FU3 and a suffix of digits
CheckedSuffixes == {<<>>, <<<<>>>>, <<FU3>>, <<<<"0","1">>>>}

\* the expected codes: None, '', a code, a code with the suffix, the suffix
CheckedExpected ==
    {<<>>, <<<<>>>>, <<CodeA>>, <<CodeA \o FU3>>, <<CodeA \o <<"0","1">>>>, <<CodeC>>, <<FU3>>}

\* list(_check_psc1(subject_id, suffix, psc1))
CheckPsc1Call(subject_id, suffix, psc1) ==
    /\ call = "none"
    /\ call' = "_check_psc1"
    /\ call_args' = [subject_id |-> subject_id, suffix |-> suffix, psc1 |-> psc1]
    /\ call_result' = [messages |-> CheckPsc1(subject_id, suffix, psc1)]
    /\ UNCHANGED CallOthers

(***************************************************************************)
(* behavioral.py: _read_generic_behavioral, the lines of data              *)
(***************************************************************************)
\* the most rows of data of a behavioural file
MaxTrials == 3

\* _TASK_SPECIFICS[task][3]: True if the sequence is strictly ascending
StrictlyAscending(task) == task \in {MID_CSV, FT_CSV, RECOG_CSV}

RECURSIVE Strip(_)
\* x.strip()
Strip(s) ==
    IF s # <<>> /\ Head(s) = " " THEN Strip(Tail(s))
    ELSE IF s # <<>> /\ s[Len(s)] = " " THEN Strip(SubSeq(s, 1, Len(s) - 1))
    ELSE s

\* int(current): <<>> for ValueError
IntOf(current) ==
    IF IsDigits(current) THEN <<StrToInt(current)>>
    ELSE IF current # <<>> /\ Head(current) = "-" /\ IsDigits(Tail(current))
    THEN <<0 - StrToInt(Tail(current))>>
    ELSE <<>>

\* the cells of the column of the trials and the rows of data: one cell, or
\* an empty first cell before another cell
TrialCells == {<<"0">>, <<"1">>, <<"2">>, <<"-","1">>, <<"2"," ">>, <<"x">>, <<>>}

TrialRows == {<<cell>> : cell \in TrialCells} \cup {<< <<>>, <<"x">> >>}

RECURSIVE SeqsUpTo(_, _)
\* the sequences of at most n elements of S
SeqsUpTo(S, n) ==
    IF n = 0 THEN {<<>>}
    ELSE LET shorter == SeqsUpTo(S, n - 1)
         IN  shorter \cup {Append(s, x) : s \in shorter, x \in S}

\* 'if last:' of an int or None
TruthyLast(last) == last # <<>> /\ last[1] # 0

\* one row of 'for n, row in enumerate(reader, 3)': st holds sequence,
\* last and the numbers of the lines in error
ReadRow(st, row, n, strictly) ==
    LET stripped == [i \in 1..Len(row) |-> Strip(row[i])]
        current == IntOf(Strip(stripped[1]))
    IN  IF \A i \in 1..Len(stripped) : stripped[i] = <<>> THEN st
        ELSE IF current = <<>>
        THEN [st EXCEPT !.errors = Append(@, n), !.last = <<>>]
        ELSE LET restart == /\ TruthyLast(st.last)
                            /\ IF strictly THEN current[1] <= st.last[1]
                               ELSE current[1] < st.last[1]
             IN  [st EXCEPT
                    !.sequence = Append(IF restart THEN <<>> ELSE @, current[1]),
                    !.last = current]

RECURSIVE ReadRows(_, _, _, _)
\* the loop over the rows from the i-th one on
ReadRows(st, rows, i, strictly) ==
    IF i > Len(rows) THEN st
    ELSE ReadRows(ReadRow(st, rows[i], i + 2, strictly), rows, i + 1, strictly)

\* _read_generic_behavioral(path, task) on a file whose rows of data are
\* rows: the sequence returned and the lines in error
ReadGenericBehavioral(task, rows) ==
    ReadRows([sequence |-> <<>>, last |-> <<>>, errors |-> <<>>], rows, 1,
             StrictlyAscending(task))

ReadGenericBehavioralCall(task) ==
    /\ call = "none"
    /\ \E rows \in SeqsUpTo(TrialRows, MaxTrials) :
          /\ call_args' = [task |-> task, rows |-> rows]
          /\ call_result' = ReadGenericBehavioral(task, rows)
    /\ call' = "_read_generic_behavioral"
    /\ UNCHANGED CallOthers

\* the call is over: the caller holds what was returned
CallEnd ==
    /\ call \in {"_check_psc1", "_read_generic_behavioral"}
    /\ call' = "returned"
    /\ UNCHANGED <<call_args, call_result>>
    /\ UNCHANGED CallOthers

(***************************************************************************)
(* The locale of the process and the two _parse_csv_datetime:              *)
(* cantab/imagen_cantab_extract_deidentify.py and imagen_databank/cantab.py *)
(***************************************************************************)
\* the locales a process may run with
Locales == {"C", "en_GB.UTF-8", "en_US.UTF-8", "fr_FR.UTF-8"}

\* the abbreviated name of the month in the locale: what %b reads
AbMonth(name, month) ==
    IF name = "fr_FR.UTF-8"
    THEN <<<<"j","a","n","v",".">>, <<"f","é","v","r",".">>, <<"m","a","r","s">>, <<"a","v","r","i","l">>, <<"m","a","i">>, <<"j","u","i","n">>,
           <<"j","u","i","l",".">>, <<"a","o","û","t">>, <<"s","e","p","t",".">>, <<"o","c","t",".">>, <<"n","o","v",".">>, <<"d","é","c",".">>>>[month]
    ELSE <<<<"J","a","n">>, <<"F","e","b">>, <<"M","a","r">>, <<"A","p","r">>, <<"M","a","y">>, <<"J","u","n">>,
           <<"J","u","l">>, <<"A","u","g">>, <<"S","e","p">>, <<"O","c","t">>, <<"N","o","v">>, <<"D","e","c">>>>[month]

\* a date written with the name of its month
DTb(fmt, date, hh, b) == [k |-> "date", fmt |-> fmt, date |-> date, hh |-> hh, b |-> b]

\* the formats that hold %b
MonthNameFormats == {"%d-%b-%Y %H:%M:%S", "%d-%b-%Y %H:%M", "%d %b %Y %H:%M:%S"}

\* datetime.strptime(date_string, date_format) in a process whose locale
\* is name: the name of the month is read without regard to case
StrptimeIn(v, fmt, name) ==
    IF fmt \in MonthNameFormats /\ Strptime(v, fmt) # <<>>
       /\ UpperText(v.b) # UpperText(AbMonth(name, v.date[2]))
    THEN <<>>
    ELSE Strptime(v, fmt)

\* DATE_FORMATS of the script: the format and the locale, <<>> for None
SCRIPT_DATE_FORMATS ==
    << <<"%d-%b-%Y %H:%M:%S", <<"en_GB.UTF-8">> >>,
       <<"%d-%b-%Y %H:%M", <<"en_GB.UTF-8">> >>,
       <<"%d %b %Y %H:%M:%S", <<"en_US.UTF-8">> >>,
       <<"%d/%m/%Y %H:%M", <<>> >>,
       <<"%d.%m.%Y %H:%M:%S", <<>> >>,
       <<"%H:%M:%S %d.%m.%Y", <<>> >>,
       <<"%d.%m.%Y %H:%M", <<>> >> >>

\* DATE_FORMATS of imagen_databank/cantab.py
LIBRARY_DATE_FORMATS ==
    <<"%d-%b-%Y %H:%M:%S", "%d/%m/%Y %H:%M", "%d.%m.%Y %H:%M:%S",
      "%d %b %Y %H:%M:%S", "%H:%M:%S %d.%m.%Y">>

RECURSIVE ScriptParseCsvDatetime(_, _, _, _)
\* _parse_csv_datetime of the script from the i-th format on, in a process
\* whose locale is saved and that has the locales of available: what is
\* returned (<<>> for None), the exception raised, and the locale the
\* process is left with
ScriptParseCsvDatetime(v, i, saved, available) ==
    IF i > Len(SCRIPT_DATE_FORMATS)
    THEN [value |-> <<>>, raised |-> "no", locale |-> saved]
    ELSE LET date_format == SCRIPT_DATE_FORMATS[i][1]
             locale_name == SCRIPT_DATE_FORMATS[i][2]
             during == IF locale_name = <<>> THEN saved ELSE locale_name[1]
         IN  IF during \notin available
             THEN [value |-> <<>>, raised |-> "locale.Error", locale |-> saved]
             ELSE IF StrptimeIn(v, date_format, during) # <<>>
             THEN [value |-> StrptimeIn(v, date_format, during), raised |-> "no",
                   locale |-> saved]
             ELSE ScriptParseCsvDatetime(v, i + 1, saved, available)

RECURSIVE LibraryParseCsvDatetime(_, _, _)
\* _parse_csv_datetime of imagen_databank/cantab.py from the i-th format on
LibraryParseCsvDatetime(v, i, name) ==
    IF i > Len(LIBRARY_DATE_FORMATS)
    THEN [value |-> <<>>, raised |-> "no", locale |-> name]
    ELSE IF StrptimeIn(v, LIBRARY_DATE_FORMATS[i], name) # <<>>
    THEN [value |-> StrptimeIn(v, LIBRARY_DATE_FORMATS[i], name), raised |-> "no",
          locale |-> name]
    ELSE LibraryParseCsvDatetime(v, i + 1, name)

\* the date strings of the datasheets
DateStrings ==
    {DTb(fmt, date, 12, AbMonth(name, date[2])) :
        fmt \in MonthNameFormats, date \in {<<2015, 3, 2>>, <<2015, 6, 1>>},
        name \in {"C", "fr_FR.UTF-8"}}
    \cup {DTb(fmt, <<2015, 3, 2>>, 12, <<>>) :
            fmt \in {"%d/%m/%Y %H:%M", "%d.%m.%Y %H:%M:%S", "%H:%M:%S %d.%m.%Y",
                     "%d.%m.%Y %H:%M"}}
    \cup {DTb("%d-%b-%Y %H:%M:%S", <<2015, 3, 2>>, 12, <<"M","A","R">>), Garbage, Empty}

\* _parse_csv_datetime(date_string) of the script
ScriptParseCall(date_string) ==
    /\ call = "none"
    /\ call' = "script"
    /\ call_args' = [date_string |-> date_string, locale |-> locale]
    /\ LET res == ScriptParseCsvDatetime(date_string, 1, locale, installed)
       IN  /\ call_result' = [value |-> res.value, raised |-> res.raised]
           /\ locale' = res.locale
    /\ UNCHANGED installed
    /\ UNCHANGED LocaleOthers

\* _parse_csv_datetime(date_string) of imagen_databank/cantab.py
LibraryParseCall(date_string) ==
    /\ call = "none"
    /\ call' = "library"
    /\ call_args' = [date_string |-> date_string, locale |-> locale]
    /\ LET res == LibraryParseCsvDatetime(date_string, 1, locale)
       IN  /\ call_result' = [value |-> res.value, raised |-> res.raised]
           /\ locale' = res.locale
    /\ UNCHANGED installed
    /\ UNCHANGED LocaleOthers

\* the call is over: the caller holds what was returned
ParseEnd ==
    /\ call \in {"script", "library"}
    /\ call' = "none"
    /\ UNCHANGED <<call_args, call_result, locale, installed>>
    /\ UNCHANGED LocaleOthers

(***************************************************************************)
(* Properties of the registry                                              *)
(***************************************************************************)
\* the lines read that carry a mapping
IsDataLine(line) == Len(line) = 3 /\ line # HeaderLine

DataLineIndices == {i \in 1..Len(reg_read) : IsDataLine(reg_read[i])}

RegOk == reg_status \in {"loading", "loaded"}

\* C1: once the registry is loaded, every internal code of the
\* internal-to-public map is the internal code of its own public code
C1_RoundTrip ==
    reg_status = "loaded" =>
        \A k \in DictKeys(PSC2_FROM_PSC1) :
            /\ DictHas(PSC1_FROM_PSC2, DictGet(PSC2_FROM_PSC1, k))
            /\ DictGet(PSC1_FROM_PSC2, DictGet(PSC2_FROM_PSC1, k)) = k

\* two lines read give one internal code two different public codes
ConflictingPublicCodes ==
    \E i, j \in DataLineIndices :
        /\ i < j
        /\ reg_read[i][1] = reg_read[j][1]
        /\ reg_read[i][3] # reg_read[j][3]

\* C2: as soon as the lines read give one internal code two public codes,
\* the load has failed with the inconsistent-mapping error
C2_InconsistentFails ==
    ConflictingPublicCodes => reg_status = "InconsistentMapping"

\* the internal code of the first, of the last line read with token t
FirstPsc1OfToken(t) ==
    LET I == {i \in DataLineIndices : reg_read[i][2] = t}
    IN  reg_read[CHOOSE i \in I : \A j \in I : i <= j][1]

LastPsc1OfToken(t) ==
    LET I == {i \in DataLineIndices : reg_read[i][2] = t}
    IN  reg_read[CHOOSE i \in I : \A j \in I : i >= j][1]

\* C3 as stated: a token keeps the internal code of the first line read
C3_TokenFirstWins ==
    RegOk => \A t \in DictKeys(psc1_from_dawba) :
                DictGet(psc1_from_dawba, t) = FirstPsc1OfToken(t)

\* C3, amended: a token maps to the internal code of the last line read with
\* that token, every token read is mapped, and nothing is logged
C3_TokenLastWins ==
    RegOk =>
        /\ DictKeys(psc1_from_dawba) = {reg_read[i][2] : i \in DataLineIndices}
        /\ \A t \in DictKeys(psc1_from_dawba) :
              DictGet(psc1_from_dawba, t) = LastPsc1OfToken(t)
        /\ reg_log = <<>>
        /\ reg_status = "loaded" => PSC1_FROM_DAWBA = psc1_from_dawba

\* a loaded registry in which a token was read with two internal codes
C3_Witness ==
    /\ reg_status = "loaded"
    /\ \E t \in DictKeys(PSC1_FROM_DAWBA) :
          FirstPsc1OfToken(t) # LastPsc1OfToken(t)

(***************************************************************************)
(* Properties of the date-of-birth table                                   *)
(***************************************************************************)
\* s is YYYY-MM-DD, a date of the calendar
WellFormedDate(s) ==
    /\ Len(s) = 10
    /\ s[5] = "-" /\ s[8] = "-"
    /\ \A i \in {1, 2, 3, 4, 6, 7, 9, 10} : s[i] \in Digits
    /\ ValidDate(StrToInt(SubSeq(s, 1, 4)), StrToInt(SubSeq(s, 6, 7)),
                 StrToInt(SubSeq(s, 9, 10)))

\* the first ten characters of s are YYYY-MM-DD, a date of the calendar
StartsWithWellFormedDate(s) == Len(s) >= 10 /\ WellFormedDate(SubSeq(s, 1, 10))

YearInWindow(s) ==
    LET year == StrToInt(SubSeq(s, 1, 4))
    IN  year >= 1989 /\ year <= 2012

DobLoadFailed ==
    /\ dob_status \in {"Exception", "ValueError"}
    /\ DOB_FROM_PSC1 = <<>>
    /\ DOB_FROM_PSC2 = <<>>

DobRowIndices == {i \in 1..Len(dob_read) : Len(dob_read[i]) = 3}

\* C4 as stated: once a row read carries a date of birth that is not a
\* well-formed date or lies outside the window, the load has failed and no
\* table is returned
C4_BadDateFailsLoad ==
    (\E i \in DobRowIndices :
        ~(WellFormedDate(dob_read[i][2]) /\ YearInWindow(dob_read[i][2])))
    => DobLoadFailed

\* C4, amended: once a row read carries a date of birth that does not begin
\* with a well-formed date or whose year lies outside the window, the load
\* has failed and no table is returned; a table that is returned has an
\* entry for every row read
C4_BadDatePrefixFailsLoad ==
    /\ (\E i \in DobRowIndices :
           ~(StartsWithWellFormedDate(dob_read[i][2])
                /\ YearInWindow(dob_read[i][2])))
       => DobLoadFailed
    /\ dob_status = "loaded" =>
          /\ DictKeys(DOB_FROM_PSC1) = {dob_read[i][1] : i \in DobRowIndices}
          /\ DobRowIndices = 1..Len(dob_read)

\* a load that failed on a bad date after it had stored an earlier row
C4_Witness ==
    /\ DobLoadFailed
    /\ dob_from_psc1 # <<>>
    /\ Len(dob_read) >= 2
    /\ Len(dob_read[Len(dob_read)]) = 3
    /\ ~(StartsWithWellFormedDate(dob_read[Len(dob_read)][2])
            /\ YearInWindow(dob_read[Len(dob_read)][2]))

(***************************************************************************)
(* Properties of the filename classifier                                   *)
(***************************************************************************)
ClsRules ==
    IF cls_exact THEN EXACT_ADDITIONAL_DATA_REGEXES
    ELSE LOOSE_ADDITIONAL_DATA_REGEXES

\* detailed_datasheet_<12 digits>.csv, with or without the fu/FU suffix
DetailedDatasheetShape(f) ==
    /\ Len(f) \in {35, 37}
    /\ SubSeq(f, 1, 19) = <<"d","e","t","a","i","l","e","d","_","d","a","t","a","s","h","e","e","t","_">>
    /\ \A i \in 20..31 : f[i] \in Digits
    /\ Len(f) = 35 => SubSeq(f, 32, 35) = <<".","c","s","v">>
    /\ Len(f) = 37 => /\ SubSeq(f, 32, 33) \in {<<"f","u">>, <<"F","U">>}
                      /\ SubSeq(f, 34, 37) = <<".","c","s","v">>

\* C9: the classifier returns the tag of the first rule of the list that
\* matches the filename and none when no rule matches; a filename of the
\* detailed-datasheet shape is tagged detailed datasheet in both modes
C9_FirstMatchWins ==
    cls_result # <<>> =>
        LET f == cls_filename[1]
            M == {k \in 1..Len(ClsRules) : ReMatch(ClsRules[k][1], f)}
        IN  /\ M = {} => cls_result[1] = None
            /\ M # {} =>
                  cls_result[1] = ClsRules[CHOOSE k \in M : \A j \in M : k <= j][2]
            /\ DetailedDatasheetShape(f) => cls_result[1] = DETAILED_DATASHEET_CSV

\* a loose classification of a detailed datasheet, which the generic
\* datasheet rule matches as well
C9_Witness ==
    /\ cls_result = <<DETAILED_DATASHEET_CSV>>
    /\ ~cls_exact
    /\ DetailedDatasheetShape(cls_filename[1])
    /\ ReMatch(ClsRules[3][1], cls_filename[1])

(***************************************************************************)
(* Properties of the de-identification scripts                             *)
(***************************************************************************)
\* the exception that stopped the script, if any
AnonRaised == anon_status \notin {"idle", "running"}

\* cleanup has just worked on an entry whose row it keeps
CleanupKept ==
    /\ handler = "cleanup"
    /\ rec_in # <<>>
    /\ ~rec_in[1].cantab.missing
    /\ Len(rec_in[1].cantab.rows) = 1
    /\ "Subject ID" \in DOMAIN rec_in[1].cantab.rows[1]
    /\ Prefix(rec_in[1].cantab.rows[1]["Subject ID"].s, 12) = rec_in[1].psc1

CleanupDateFields == {"Session start time", "Test start time"}

\* the date fields of the row cleanup has just worked on
CleanupDatesRead == CleanupDateFields \cap DOMAIN rec_in[1].cantab.rows[1]

TimestampFields == {"Completed Timestamp", "Processed Timestamp"}

\* the script of the Psytools CSV files has just worked on a row of a
\* registered subject that is not an identity check
CsvConverted ==
    /\ handler = "psytools_csv"
    /\ rec_in # <<>>
    /\ ~Contains(rec_in[1]["Trial"].s, <<"i","d","_","c","h","e","c","k","_">>)
    /\ DictHas(PSC2_FROM_PSC1, RSplitDash(rec_in[1]["User code"].s)[1])

\* the script of the legacy Psytools files has just worked on a row of a
\* registered subject
LegacyConverted ==
    /\ handler = "legacy"
    /\ rec_in # <<>>
    /\ DictHas(PSC2_FROM_PSC1, Prefix(rec_in[1]["User code"].s, 12))

\* the text of the number of days from the date of birth of psc1 to date
AgeText(psc1, date) ==
    Txt(IntToStr(DateDiffDays(date, DictGet(DOB_FROM_PSC1, psc1))))

\* C5, in cleanup
C5_Cleanup ==
    (CleanupKept /\ ~AnonRaised /\ DictHas(DOB_FROM_PSC1, rec_in[1].psc1)) =>
        \A f \in CleanupDatesRead :
            LET parsed == ParseCsvDatetime(rec_in[1].cantab.rows[1][f])
            IN  parsed # <<>> =>
                    /\ rec_out # <<>>
                    /\ rec_out[1][f] = AgeText(rec_in[1].psc1, parsed[1].date)

\* C5, in the script of the legacy Psytools files
C5_Legacy ==
    LET psc1 == Prefix(rec_in[1]["User code"].s, 12)
    IN  (LegacyConverted /\ ~AnonRaised /\ DictHas(DOB_FROM_PSC1, psc1)) =>
            \A f \in TimestampFields \cap DOMAIN rec_in[1] :
                LET parsed == ParseFirst(rec_in[1][f], LEGACY_ANONYMIZED_COLUMNS[f], 1)
                IN  parsed # <<>> =>
                        /\ rec_out # <<>>
                        /\ rec_out[1][f] = AgeText(psc1, parsed[1].date)

\* C5, in the script of the Psytools CSV files
C5_Csv ==
    LET psc1 == RSplitDash(rec_in[1]["User code"].s)[1]
    IN  (CsvConverted /\ ~AnonRaised /\ DictHas(DOB_FROM_PSC1, psc1)) =>
            \A f \in TimestampFields \cap DOMAIN rec_in[1] :
                LET parsed == Strptime(rec_in[1][f], CSV_ANONYMIZED_COLUMNS[f])
                IN  parsed # <<>> =>
                        /\ rec_out # <<>>
                        /\ rec_out[1][f] = AgeText(psc1, parsed[1].date)

\* C5: whenever a script has worked on a record of a subject with a
\* registered date of birth without raising, every date field of the record
\* that parses holds, in the record written, the text of the exact number of
\* days from the date of birth to the date parsed, whatever the time of day;
\* this in cleanup, in the legacy Psytools script and in the Psytools CSV
\* script.
C5_ExactDayDifference == C5_Cleanup /\ C5_Legacy /\ C5_Csv

\* a subject with a registered date of birth, a timestamp that parses, and
\* the Psytools CSV script has written the row
C5_CsvCase ==
    /\ CsvConverted
    /\ ~AnonRaised
    /\ DictHas(DOB_FROM_PSC1, RSplitDash(rec_in[1]["User code"].s)[1])
    /\ "Completed Timestamp" \in DOMAIN rec_in[1]
    /\ Strptime(rec_in[1]["Completed Timestamp"], "%Y-%m-%d %H:%M:%S.%f") # <<>>
    /\ rec_out # <<>>

\* the date of birth and the date of the event of the example
ExampleBirth == <<1997, 3, 1>>

ExampleEvent == <<2015, 3, 2>>

\* cleanup has kept a row of a subject born on ExampleBirth whose session
\* started on ExampleEvent
C6_CleanupCase ==
    /\ CleanupKept
    /\ ~AnonRaised
    /\ DictHas(DOB_FROM_PSC1, rec_in[1].psc1)
    /\ DictGet(DOB_FROM_PSC1, rec_in[1].psc1) = ExampleBirth
    /\ "Session start time" \in DOMAIN rec_in[1].cantab.rows[1]
    /\ ParseCsvDatetime(rec_in[1].cantab.rows[1]["Session start time"]) # <<>>
    /\ ParseCsvDatetime(rec_in[1].cantab.rows[1]["Session start time"])[1].date
          = ExampleEvent

\* the DAWBA script has worked on a line of a subject born on ExampleBirth
\* whose first start date is ExampleEvent
C6_DawbaCase ==
    /\ handler = "dawba"
    /\ rec_in # <<>>
    /\ ~AnonRaised
    /\ DictHas(PSC1_FROM_DAWBA, rec_in[1][1].s)
    /\ DictHas(DOB_FROM_PSC1, DictGet(PSC1_FROM_DAWBA, rec_in[1][1].s))
    /\ DictGet(DOB_FROM_PSC1, DictGet(PSC1_FROM_DAWBA, rec_in[1][1].s)) = ExampleBirth
    /\ Strptime(rec_in[1][2], "%d.%m.%y") # <<>>
    /\ Strptime(rec_in[1][2], "%d.%m.%y")[1].date = ExampleEvent

\* the age written in the cases of the example is the text days
C6_AgeWritten(days) ==
    /\ C6_CleanupCase =>
          rec_out # <<>> /\ rec_out[1]["Session start time"] = Txt(days)
    /\ C6_DawbaCase => rec_out # <<>> /\ rec_out[1][2] = Txt(days)

\* C6: for a subject whose registered date of birth is 1997-03-01, an event
\* dated 2015-03-02 is written as an age of 6576 days, by cleanup and by the
\* DAWBA script.
C6_Age6576 == C6_AgeWritten(<<"6", "5", "7", "6">>)

\* C6, amended: for a subject whose registered date of birth is 1997-03-01,
\* an event dated 2015-03-02, at any time of the day, is written as an age
\* of 6575 days, by cleanup and by the DAWBA script.
C6_Age6575 == C6_AgeWritten(<<"6", "5", "7", "5">>)

\* cleanup has written 6575 for a session late in the day of the example
C6_Witness ==
    /\ C6_CleanupCase
    /\ ParseCsvDatetime(rec_in[1].cantab.rows[1]["Session start time"])[1].hh = 23
    /\ rec_out # <<>>
    /\ rec_out[1]["Session start time"] = Txt(<<"6", "5", "7", "5">>)

\* the messages of log that report a date before the floor
ImplausibleDateMessages(log) ==
    {i \in 1..Len(log) : log[i].msg = "Session start time anterior to 2007"}

\* C7, in read_datasheet
C7_ReadDatasheet ==
    (/\ handler = "read_datasheet"
     /\ rec_in # <<>>
     /\ ~AnonRaised
     /\ DictHas(DatasheetFields(header), "Session start time")) =>
        LET parsed == ParseDatasheetDatetime(
                          rec_in[1][DictGet(DatasheetFields(header), "Session start time")])
        IN  (parsed # <<>> /\ DatetimeBefore(parsed[1], SESSION_FLOOR)) =>
                /\ Cardinality(ImplausibleDateMessages(rec_log)) = 1
                /\ parsed[1] \notin pending.session_start_times

\* C7, in cleanup
C7_Cleanup ==
    (CleanupKept /\ ~AnonRaised) =>
        \A f \in CleanupDatesRead :
            LET parsed == ParseCsvDatetime(rec_in[1].cantab.rows[1][f])
            IN  (parsed # <<>> /\ DatetimeBefore(parsed[1], SESSION_FLOOR)) =>
                    /\ rec_out # <<>>
                    /\ rec_out[1][f] = Empty
                    /\ Cardinality(ImplausibleDateMessages(rec_log)) = 1

\* C7: a date that parses to a value before 1 January 2007 gives no result
\* for its field and exactly one message about the implausible date:
\* read_datasheet keeps it out of the session start times it returns, and
\* cleanup does not turn it into an age.
C7_ImplausibleDateRejected == C7_ReadDatasheet /\ C7_Cleanup

\* read_datasheet has read a session start time before the floor
C7_DatasheetCase ==
    /\ handler = "read_datasheet"
    /\ rec_in # <<>>
    /\ ~AnonRaised
    /\ \E t \in pending.session_start_times : DatetimeBefore(t, SESSION_FLOOR)

\* C8, in cleanup
C8_Cleanup ==
    (CleanupKept /\ ~DictHas(DOB_FROM_PSC1, rec_in[1].psc1)) =>
        /\ ~AnonRaised
        /\ rec_out # <<>>
        /\ \A f \in CleanupDatesRead : rec_out[1][f] = Empty

\* C8, in process_behavioural
C8_Onsets ==
    (/\ handler = "onsets"
     /\ rec_in # <<>>
     /\ Len(rec_in[1].column) >= 3
     /\ ~DictHas(DOB_FROM_PSC1, rec_in[1].psc1)) =>
        /\ ~AnonRaised
        /\ rec_out # <<>>
        /\ rec_out[1].column[2] = Empty

\* C8, in the script of the LSRC2 Psytools files
C8_Lsrc2 ==
    (/\ handler = "lsrc2"
     /\ rec_in # <<>>
     /\ Psc1(rec_in[1]["id"].s, PSC2_FROM_PSC1).psc1 # <<>>
     /\ ~DictHas(DOB_FROM_PSC1, Psc1(rec_in[1]["id"].s, PSC2_FROM_PSC1).psc1[1])) =>
        /\ ~AnonRaised
        /\ rec_out # <<>>
        /\ \A x \in LSRC2_COLUMNS_WITH_DATE \cap DOMAIN rec_out[1] :
              Rendered(rec_out[1][x]) = Empty

\* C8: when the subject of a record has no registered date of birth, no
\* exception is raised, the record is written, and each of its date fields
\* is written empty; this in cleanup, in process_behavioural and in the
\* LSRC2 Psytools script.
C8_MissingDobEmptyField == C8_Cleanup /\ C8_Onsets /\ C8_Lsrc2

\* process_behavioural has worked on the file of a registered subject
\* without a date of birth, the date of the first line being well formed
C8_OnsetsCase ==
    /\ handler = "onsets"
    /\ rec_in # <<>>
    /\ Len(rec_in[1].column) >= 3
    /\ ParseOnsetsDatetime(rec_in[1].column[2]) # <<>>
    /\ DictHas(PSC2_FROM_PSC1, rec_in[1].psc1)
    /\ ~DictHas(DOB_FROM_PSC1, rec_in[1].psc1)

\* the user code of the row read is a registered PSC1 code of 12 digits
\* followed by a suffix of LEGACY_SUFFIXES
RoleUserCode ==
    LET user_code == rec_in[1]["User code"].s
    IN  /\ Len(user_code) = 14
        /\ IsDigits(Prefix(user_code, 12))
        /\ DictHas(PSC2_FROM_PSC1, Prefix(user_code, 12))
        /\ Suffix(user_code, 12) \in LEGACY_SUFFIXES

\* the user code of the row read, rewritten with the public code
RoleUserCodePublic ==
    DictGet(PSC2_FROM_PSC1, Prefix(rec_in[1]["User code"].s, 12))
        \o Suffix(rec_in[1]["User code"].s, 12)

\* C10: a user code made of a registered internal code of 12 digits followed
\* by -C, -P or -I is split into that code and that suffix, and the row is
\* written, unless the script raises, with the public code of that code
\* followed by the same suffix; this in the legacy Psytools script and in
\* the Psytools CSV script.
C10_RoleSuffixRewritten ==
    /\ (LegacyConverted /\ RoleUserCode /\ ~AnonRaised) =>
          /\ rec_out # <<>>
          /\ rec_out[1]["User code"] = Txt(RoleUserCodePublic)
    /\ (CsvConverted /\ RoleUserCode) =>
          /\ RSplitDash(rec_in[1]["User code"].s) =
                <<Prefix(rec_in[1]["User code"].s, 12),
                  Suffix(rec_in[1]["User code"].s, 13)>>
          /\ ~AnonRaised =>
                /\ rec_out # <<>>
                /\ rec_out[1]["User code"] = Txt(RoleUserCodePublic)

\* the legacy script has written 098765432100-C for 012345678901-C
C10_Witness ==
    /\ LegacyConverted
    /\ rec_in[1]["User code"] = Txt(CodeA \o <<"-", "C">>)
    /\ DictGet(PSC2_FROM_PSC1, CodeA) = CodeB
    /\ rec_out # <<>>
    /\ rec_out[1]["User code"] = Txt(CodeB \o <<"-", "C">>)

\* the LSRC2 script or the Psytools CSV script has worked on a record
AnonymizerRead ==
    /\ handler \in {"lsrc2", "psytools_csv"}
    /\ rec_in # <<>>

\* C11: in the LSRC2 script and in the Psytools CSV script, every record read
\* yields exactly one record written, or no record written and at least one
\* message logged, and no record makes the script raise an exception.
C11_AnonymizerTotal ==
    AnonymizerRead =>
        /\ ~AnonRaised
        /\ \/ Len(rec_out) = 1
           \/ rec_out = <<>> /\ rec_log # <<>>

\* the text that marks the items of the identity cross-check
ID_CHECK == <<"i","d","_","c","h","e","c","k","_">>

\* a row the legacy script keeps holds none of DISCARDED_COLUMNS
C12_LegacyRow ==
    (handler = "legacy" /\ rec_out # <<>>) =>
        DOMAIN rec_out[1] \cap DISCARDED_COLUMNS = {}

\* the Psytools CSV script writes nothing for a row of an id_check_ item
C12_CsvRow ==
    (handler = "psytools_csv" /\ rec_in # <<>>) =>
        /\ Contains(rec_in[1]["Trial"].s, ID_CHECK) => rec_out = <<>>
        /\ rec_out # <<>> => ~Contains(rec_out[1]["Trial"].s, ID_CHECK)

\* the header the legacy script writes holds none of DISCARDED_COLUMNS
C12_LegacyHeader ==
    (handler = "legacy" /\ handler' = "none") =>
        \A i \in 1..Len(written'.fieldnames) :
            written'.fieldnames[i] \notin DISCARDED_COLUMNS

\* C12: the columns of DISCARDED_COLUMNS are absent from the header the
\* legacy script writes and from every row it keeps, none being kept with
\* an empty value, and the Psytools CSV script writes no row whose Trial
\* contains id_check_.
C12_NoIdentifyingItem ==
    /\ [](C12_LegacyRow /\ C12_CsvRow)
    /\ [][C12_LegacyHeader]_vars

\* the legacy script has kept a row of a file with the column id_check_dob
C12_Witness ==
    /\ handler = "legacy"
    /\ rec_in # <<>>
    /\ "id_check_dob" \in DOMAIN rec_in[1]
    /\ rec_out # <<>>
    /\ "id_check_dob" \notin DOMAIN rec_out[1]

\* the LSRC2 script has read a row whose id _psc1 does not find
Lsrc2Unregistered ==
    /\ handler = "lsrc2"
    /\ rec_in # <<>>
    /\ Psc1(rec_in[1]["id"].s, PSC2_FROM_PSC1).psc1 = <<>>

\* the id of the row read is one _psc1 skips as a test subject or as the
\* known invalid identifier
Lsrc2TestSubject ==
    \/ Contains(UpperText(rec_in[1]["id"].s), <<"T","E","S","T">>)
    \/ rec_in[1]["id"].s = <<"0","x","0","0","0","0","x","x","x","x","x","x">>

\* the LSRC2 script drops a row of an unregistered code, with a message of
\* level error unless the code is that of a test subject
C13_Lsrc2 ==
    Lsrc2Unregistered =>
        /\ ~AnonRaised
        /\ rec_out = <<>>
        /\ \/ Lsrc2TestSubject
           \/ \E i \in 1..Len(rec_log) : rec_log[i].level = "error"

\* cleanup has kept the dataset of a code that is not in the registry
CantabUnregistered ==
    /\ handler = "cleanup"
    /\ \E p \in pending : p[2] /\ ~DictHas(PSC2_FROM_PSC1, p[1])

\* main of the Cantab script, mapping the keys of the datasets kept to
\* public codes after the loop of cleanup, does not raise on the dataset of
\* an unregistered code
C13_Cantab ==
    CantabUnregistered => ~(rec_in = <<>> /\ anon_status = "KeyError")

\* C13: a record (LSRC2 script) or dataset (Cantab script) whose base code
\* is not in the registry is not written and raises no exception: it is
\* dropped, with a message of level error unless the code is that of a test
\* subject, and the script goes on.
C13_UnregisteredDropped == C13_Lsrc2 /\ C13_Cantab

(***************************************************************************)
(* Properties of the archive validator                                     *)
(***************************************************************************)
\* the unit of work has raised an exception
ZipRaised == zip_status \notin {"idle", "running", "returned"}

\* C14: whatever the tree of the archive and whichever of timepoint, psc1,
\* date and expected are given, check_zip_content raises no exception: its
\* call ends by returning subject_ids and error_list.
C14_NeverRaises ==
    unit = "check_zip_content" => ~ZipRaised

\* error_list holds an Error of the message at the path
HasError(path, message) ==
    \E i \in 1..Len(error_list) :
        error_list[i].path = path /\ error_list[i].message = message

\* the name of the uppermost folder at work has failed _check_psc1
NameFailed ==
    /\ zip_dir # <<>>
    /\ HasError(Uppermost.filename, "Incorrect uppermost folder name")

\* _check_ziptree is through with the uppermost folder at work
FolderDone ==
    /\ unit = "check_zip_content"
    /\ zip_status \in {"running", "returned"}
    /\ zip_pc = "uppermost"
    /\ zip_dir # <<>>

\* the files and the folders of the uppermost folder at work were checked
FolderChecked ==
    LET z == Uppermost
    IN  /\ \A i \in 1..Len(z.files) :
              HasError(<<Basename(z.files[i])>>, "Unexpected file in the uppermost folder")
        /\ (\E i \in 1..Len(z.directories) :
                z.directories[i] \notin {ADDITIONAL_DATA, IMAGE_DATA})
              => HasError(z.filename, "Unexpected folder subfolder in the uppermost folder")

\* the folder Scanning of the uppermost folder at work was checked: its
\* folders are reported, its behavioral files were extracted and read, its
\* other files were named or reported
ScanningChecked ==
    LET path == <<zip_dir[1], ADDITIONAL_DATA, SCANNING>>
        scanning == ziptree[path]
    IN  /\ \A i \in 1..Len(scanning.directories) :
              HasError(ziptree[Append(path, scanning.directories[i])].filename,
                       "Folder \"Scanning\" should not contain subfolders")
        /\ \A i \in 1..Len(scanning.files) :
              LET z == scanning.files[i]
              IN  \/ /\ CheckBehavioralName(Basename(z)) # <<>>
                     /\ InSeq(z.filename, extracted)
                  \/ /\ CheckBehavioralName(Basename(z)) = <<>>
                     /\ CheckPhysiologicalName(Basename(z)) # <<>>
                  \/ HasError(z.filename, "Unexpected file name in \"Scanning\"")

\* the folder AdditionalData of the uppermost folder at work was checked,
\* or reported missing
AdditionalDataChecked ==
    LET z == Uppermost
        path == <<zip_dir[1], ADDITIONAL_DATA>>
    IN  IF ~InSeq(ADDITIONAL_DATA, z.directories)
        THEN HasError(z.filename \o <<ADDITIONAL_DATA>>, "Folder \"AdditionalData\" is missing")
        ELSE IF ~InSeq(SCANNING, ziptree[path].directories)
        THEN HasError(ziptree[path].filename \o <<SCANNING>>, "Folder \"Scanning\" is missing")
        ELSE ScanningChecked

\* the folder ImageData of the uppermost folder at work was checked, or
\* reported missing
ImageDataChecked ==
    LET z == Uppermost
        path == <<zip_dir[1], IMAGE_DATA>>
    IN  IF ~InSeq(IMAGE_DATA, z.directories)
        THEN HasError(z.filename \o <<IMAGE_DATA>>, "Folder \"ImageData\" is missing")
        ELSE IF Files(ziptree, path) = <<>>
        THEN HasError(ziptree[path].filename, "Folder is empty")
        ELSE InSeq(Files(ziptree, path)[1], extracted)

\* no statement of the check takes an Error out of error_list
ErrorsKept ==
    (unit = "check_zip_content" /\ unit' = "check_zip_content") =>
        /\ Len(error_list') >= Len(error_list)
        /\ SubSeq(error_list', 1, Len(error_list)) = error_list

\* C15: when the name of an uppermost folder fails _check_psc1, then, unless
\* an exception is raised, _check_ziptree is through with the folder only
\* after its files and subfolders, AdditionalData, Scanning and ImageData
\* were checked, and the Error objects of all of them are in the one
\* error_list, after those of the name.
C15_DescendsAfterNameFailure ==
    /\ []((FolderDone /\ NameFailed) =>
             FolderChecked /\ AdditionalDataChecked /\ ImageDataChecked)
    /\ [][ErrorsKept]_vars

\* the check has returned for an archive whose uppermost folder has a name
\* that fails and holds the folders Scanning and ImageData with files
C15_Witness ==
    /\ FolderDone
    /\ zip_status = "returned"
    /\ NameFailed
    /\ Len(extracted) >= 2
    /\ Len(error_list) >= 2

\* _check_ziptree is at work on the tree read from the archive
ZiptreeRead ==
    /\ unit = "check_zip_content"
    /\ zip_pc # "none"

\* C16: when the root of the archive holds no folder, or more than one
\* folder, error_list holds an Error about the root of the archive, its
\* path being the name of the ZIP file.
C16_ExactlyOneUppermost ==
    (ZiptreeRead /\ Len(ziptree[<<>>].directories) # 1) =>
        \E i \in 1..Len(error_list) :
            error_list[i].path = <<zip_args.archive.basename>>

\* the identifier without the suffix of the time point
StripSuffix(subject_id, suffix) ==
    IF TruthyArg(suffix) /\ EndsWith(subject_id, suffix[1])
    THEN ButLast(subject_id, Len(suffix[1]))
    ELSE subject_id

\* the identifier differs from the code expected in the folder Scanning
DiffersFromExpected(subject_id) ==
    StripSuffix(subject_id, zip_args.suffix)
        # StripSuffix(ScanningPsc1[1], zip_args.suffix)

\* _check_ziptree is through with an uppermost folder that holds the folder
\* Scanning
ScanningDone ==
    /\ FolderDone
    /\ InSeq(ADDITIONAL_DATA, Uppermost.directories)
    /\ InSeq(SCANNING, ziptree[<<zip_dir[1], ADDITIONAL_DATA>>].directories)

\* every file of Scanning whose name or content holds an identifier that
\* differs from the expected code has its Error, and the check went on
\* with the other files of Scanning and with ImageData
C17_Mismatch ==
    ScanningDone =>
        /\ \A i \in 1..Len(ziptree[<<zip_dir[1], ADDITIONAL_DATA, SCANNING>>].files) :
              LET z == ziptree[<<zip_dir[1], ADDITIONAL_DATA, SCANNING>>].files[i]
                  behavioral == CheckBehavioralName(Basename(z))
                  physiological == CheckPhysiologicalName(Basename(z))
              IN  IF behavioral # <<>>
                  THEN /\ (behavioral[2] # <<>> /\ DiffersFromExpected(behavioral[2]))
                             => HasError(z.filename, "Incorrect behavioral file name")
                       /\ (TruthyArg(z.content.subject_id)
                             /\ DiffersFromExpected(z.content.subject_id[1]))
                             => HasError(z.filename, "Incorrect behavioral file content")
                  ELSE (physiological # <<>> /\ TruthyArg(physiological[2])
                          /\ DiffersFromExpected(physiological[2][1]))
                          => HasError(z.filename, "Incorrect physiological file name")
        /\ ScanningChecked
        /\ ImageDataChecked

\* the archive holds two entries of the same file
HasDuplicate ==
    LET infolist == zip_args.archive.infolist
    IN  \E i, j \in 1..Len(infolist) :
            /\ i < j
            /\ ~infolist[i].is_dir
            /\ ~infolist[j].is_dir
            /\ infolist[i].filename = infolist[j].filename

\* check_zip_content was called on an archive, not empty, with two entries
\* of the same file
DuplicateChecked ==
    /\ unit = "check_zip_content"
    /\ zip_args.archive.size # 0
    /\ HasDuplicate

\* C17 as stated: a file of Scanning whose identifier differs from the
\* expected code and a duplicated entry each give an Error, and the check
\* goes on with the rest of the archive.
C17_MismatchAndDuplicateGoOn ==
    /\ C17_Mismatch
    /\ DuplicateChecked =>
          /\ ~ZipRaised
          /\ error_list # <<>>
          /\ ZiptreeRead

\* C17, amended: a file of Scanning whose identifier differs from the
\* expected code gives an Error and the check goes on with the rest of the
\* archive; a duplicated entry makes check_zip_content return at once, with
\* no identifier and the one Error 'Cannot read ZIP file', nothing of the
\* tree being checked; neither raises an exception.
C17_DuplicateEndsCheck ==
    /\ C17_Mismatch
    /\ DuplicateChecked =>
          /\ zip_status = "returned"
          /\ error_list = <<Error(<<zip_args.archive.basename>>, "Cannot read ZIP file",
                                  "duplicate file entry in zipfile")>>
          /\ subject_ids = {}
          /\ extracted = <<>>
          /\ ~ZiptreeRead

\* check_zip_content has returned for an archive whose folder Scanning
\* holds two entries of the same file
C17_Witness ==
    /\ DuplicateChecked
    /\ zip_status = "returned"
    /\ \E i \in 1..Len(zip_args.archive.infolist) :
          /\ ~zip_args.archive.infolist[i].is_dir
          /\ Len(zip_args.archive.infolist[i].filename) = 4
          /\ zip_args.archive.infolist[i].filename[3] = SCANNING

\* the files of the folder ImageData of the uppermost folder at work, in
\* the order of the loop of _check_image_data
ImageDataFiles == Files(ziptree, <<zip_dir[1], IMAGE_DATA>>)

\* the folder ImageData of the uppermost folder at work holds files, each
\* of them an entry of the archive
ImageDataToRead ==
    /\ unit = "check_zip_content"
    /\ zip_dir # <<>>
    /\ InSeq(IMAGE_DATA, Uppermost.directories)
    /\ ImageDataFiles # <<>>
    /\ \A i \in 1..Len(ImageDataFiles) : GetInfo(ImageDataFiles[i]) # <<>>

\* read_metadata reads the i-th file of ImageData without error
ReadsWithoutError(i) == GetInfo(ImageDataFiles[i])[1].content.raised = "no"

\* the files of ImageData extracted so far, in order
ImagesExtracted == SelectSeq(extracted, LAMBDA f : InSeq(f, ImageDataFiles))

\* the loop of _check_image_data over the files of the uppermost folder at
\* work has ended, by its end, by break or by an exception
ImageDataOver ==
    /\ ImageDataToRead
    /\ \/ zip_pc = "uppermost" /\ zip_status \in {"running", "returned"}
       \/ zip_pc = "dicom" /\ ZipRaised

\* the number of Error objects of the message about the files of ImageData
ImageErrors(message) ==
    Cardinality({i \in 1..Len(error_list) :
                    /\ error_list[i].message = message
                    /\ InSeq(error_list[i].path, ImageDataFiles)})

\* C18: the files of ImageData are extracted in the order of the folder;
\* the loop ends with the first file read_metadata reads without error, no
\* later file being extracted, and the identifier check is that of this
\* file; exactly when no file is read without error there is one Error
\* 'Unable to read DICOM files', and then none about a wrong or a missing
\* identifier.
C18_FirstReadableDecides ==
    /\ (ImageDataToRead /\ zip_pc \in {"dicom", "uppermost"}) =>
          ImagesExtracted = SubSeq(ImageDataFiles, 1, Len(ImagesExtracted))
    /\ ImageDataOver =>
          LET readable == {i \in 1..Len(ImageDataFiles) : ReadsWithoutError(i)}
          IN  IF readable # {}
              THEN /\ ImagesExtracted =
                         SubSeq(ImageDataFiles, 1,
                                CHOOSE i \in readable : \A j \in readable : i <= j)
                   /\ ImageErrors("Unable to read DICOM files in dataset") = 0
              ELSE /\ ImagesExtracted = ImageDataFiles
                   /\ ImageErrors("Unable to read DICOM files in dataset") = 1
                   /\ ImageErrors("PSC1 code was expected to be") = 0
                   /\ ImageErrors("Missing PSC1 code") = 0

\* the messages of the Error objects about an identifier
IdentifierMessages ==
    {"Incorrect uppermost folder name", "Incorrect behavioral file name",
     "Incorrect behavioral file content", "Incorrect physiological file name",
     "Missing subject ID", "PSC1 code was expected to be", "Missing PSC1 code"}

\* the caller gives no expected code, and the name of the uppermost folder
\* at work, the names and the contents of its Scanning files and the tag of
\* the first file of its ImageData all hold the same valid code
SameCodeEverywhere ==
    /\ ScanningDone
    /\ ImageDataToRead
    /\ zip_args.psc1 = <<>>
    /\ TruthyArg(zip_args.suffix)
    /\ CheckPsc1(zip_dir[1], zip_args.suffix, <<>>) = <<>>
    /\ ziptree[<<zip_dir[1], ADDITIONAL_DATA, SCANNING>>].files # <<>>
    /\ \A i \in 1..Len(ziptree[<<zip_dir[1], ADDITIONAL_DATA, SCANNING>>].files) :
          LET z == ziptree[<<zip_dir[1], ADDITIONAL_DATA, SCANNING>>].files[i]
              behavioral == CheckBehavioralName(Basename(z))
          IN  /\ behavioral # <<>>
              /\ behavioral[2] # <<>>
              /\ ~DiffersFromExpected(behavioral[2])
              /\ TruthyArg(z.content.subject_id)
              /\ ~DiffersFromExpected(z.content.subject_id[1])
    /\ ReadsWithoutError(1)
    /\ LET found == DicomSubjectId(GetInfo(ImageDataFiles[1])[1].content.metadata,
                                   zip_args.suffix[1])
       IN  found # <<>> /\ ~DiffersFromExpected(found[1])

\* C19: the identifier of the image file is checked against the expected
\* code of the Scanning files, the one derived from the name of the
\* uppermost folder when the caller gives none: an archive whose folder
\* name, Scanning files and image tag hold the same valid code has no Error
\* about an identifier.
C19_SameExpectedCode ==
    SameCodeEverywhere =>
        \A i \in 1..Len(error_list) : error_list[i].message \notin IdentifierMessages

\* the unit of work has ended: check_zip_content or deidentify has returned
\* or has raised
UnitEnded == zip_status \notin {"idle", "running"}

\* C20: when check_zip_content or deidentify ends, by its return, by an
\* early return or by an exception, no temporary directory it has created
\* is left.
C20_TemporaryDirectoriesRemoved == UnitEnded => tempdirs = {}

\* a unit of work that has extracted files into a temporary directory has
\* ended by an exception, its directory removed
C20_Witness ==
    /\ UnitEnded
    /\ ZipRaised
    /\ extracted # <<>>
    /\ tempdirs = {}

(***************************************************************************)
(* Properties of the order of the rows written                             *)
(***************************************************************************)
\* the public codes are in non-decreasing order
NonDecreasing(keys) ==
    \A i \in 1..(Len(keys) - 1) : ~TextLess(keys[i + 1], keys[i])

\* the public code of a row kept for writing by the legacy script
PendingKey(row) ==
    pending[CHOOSE i \in 1..Len(pending) : pending[i][2] = row][1]

\* the table of the Cantab script and that of the legacy script, as
\* written at the end of the file, are in the order of the public codes
SortedAtWrite ==
    /\ (handler = "cleanup" /\ handler' = "none") => NonDecreasing(written')
    /\ (handler = "legacy" /\ handler' = "none") =>
          NonDecreasing([i \in 1..Len(written'.rows) |-> PendingKey(written'.rows[i])])

\* a row of the LSRC2 file written after another one is of a public code
\* that is not less
SortedAsWritten ==
    (/\ handler = "lsrc2" /\ handler' = "lsrc2"
     /\ rec_out # <<>> /\ rec_out' # <<>>)
    => ~TextLess(rec_out'[1]["id"].s, rec_out[1]["id"].s)

\* C22: in every table the anonymizer scripts write, the rows are in
\* non-decreasing order of public code, whatever the order of the rows
\* read.
C22_RowsSorted == [][SortedAtWrite /\ SortedAsWritten]_vars

(***************************************************************************)
(* Properties of the listing of the datasets and of the pool               *)
(***************************************************************************)
\* the function at work lists tarballs or ZIP files and hands them to a pool
Pooled == job \in {"dataset_BL", "process_datasets"}

\* the subject and the timestamp or the increment of a file of the
\* directory listed, <<>> for a file the listing leaves out
Submission(dataset) ==
    IF job = "dataset_BL"
    THEN LET found == ExtractPsc1TimestampBL(dataset.basename)
         IN  IF found[1] # <<>> /\ found[2] # <<>>
             THEN <<[psc1 |-> found[1][1], key |-> found[2][1],
                     path |-> DatasetPathBL(dataset)]>>
             ELSE <<>>
    ELSE LET split == SplitMax(SplitExt(dataset.basename)[1], <<"_">>, 2)
         IN  IF /\ SplitExt(dataset.basename)[2] = <<".","z","i","p">>
                /\ Len(split) = 3
                /\ Slice(split[3], 12, 12 + Len(job_args.timepoint)) = job_args.timepoint
             THEN <<[psc1 |-> Slice(split[3], 0, 12), key |-> StrToInt(split[1]),
                     path |-> dataset.basename]>>
             ELSE <<>>

\* the submissions of the directory listed
Submissions ==
    {Submission(job_args.path[i])[1] :
        i \in {j \in 1..Len(job_args.path) : Submission(job_args.path[j]) # <<>>}}

\* a <= b of two timestamps or of two increments
KeyLeq(a, b) == IF job = "dataset_BL" THEN TupleLeq(a, b) ELSE a <= b

\* the submission is one of the most recent of its subject
MostRecent(s) ==
    \A t \in Submissions : t.psc1 = s.psc1 => KeyLeq(t.key, s.key)

\* the item of todo_list: its subject and its path
TodoPsc1(item) == IF job = "dataset_BL" THEN item[1] ELSE item[2]

TodoPath(item) == item[Len(item)]

\* the listing is over and the pool has been handed todo_list
Dispatched ==
    /\ Pooled
    /\ \/ job_status \in {"mapping", "returned"}
       \/ todo_list # <<>>

\* C21: of the submissions of one subject, one is handed to the pool, one
\* of the greatest timestamp (tarballs) or increment (ZIP files); the list
\* is made before a worker starts, and a worker opens no other submission.
C21_LatestDispatched ==
    /\ (Pooled /\ job_status = "listing") => (todo_list = <<>> /\ opened = {})
    /\ Dispatched =>
          /\ \A s \in Submissions :
                Cardinality({i \in 1..Len(todo_list) :
                                TodoPsc1(todo_list[i]) = s.psc1}) = 1
          /\ \A i \in 1..Len(todo_list) :
                \E s \in Submissions :
                    /\ s.psc1 = TodoPsc1(todo_list[i])
                    /\ s.path = TodoPath(todo_list[i])
                    /\ MostRecent(s)
    /\ Pooled =>
          \A dataset_path \in opened :
              \E s \in Submissions : s.path = dataset_path /\ MostRecent(s)

\* a subject has an older submission listed after its most recent one, and
\* a worker has opened the most recent one
C21_Witness ==
    /\ Dispatched
    /\ \E i, j \in 1..Len(job_args.path) :
          /\ i < j
          /\ Submission(job_args.path[i]) # <<>>
          /\ Submission(job_args.path[j]) # <<>>
          /\ LET s == Submission(job_args.path[i])[1]
                 t == Submission(job_args.path[j])[1]
             IN  /\ s.psc1 = t.psc1
                 /\ s.key # t.key
                 /\ MostRecent(s)
                 /\ s.path \in opened

\* the exceptions of the worker functions
WorkerExceptions == {"ReadError", "BadZipFile"}

\* C23: when the call of the worker function on one dataset fails, its
\* archive being unreadable, the batch is not aborted: the function at work
\* returns, with the results of all the other datasets of todo_list.
C23_FailedUnitSkipped ==
    Pooled =>
        /\ job_status \notin WorkerExceptions
        /\ job_status = "returned" =>
              /\ Len(results) = Len(todo_list)
              /\ \A i \in 1..Len(results) : results[i].state = "done"

RECURSIVE MriListed(_, _)
\* datasets after the loop of list_datasets over the files s, none of them
\* of a name that makes quarantine_filename_semantics raise
MriListed(d, s) ==
    IF s = <<>> THEN d
    ELSE LET zip_file == Head(s)
         IN  IF \/ SplitExt(zip_file.basename)[2] # <<".","z","i","p">>
                \/ zip_file.content = "BadZipFile"
             THEN MriListed(d, Tail(s))
             ELSE MriListed(MostRecentKept(d, zip_file,
                                QuarantineFilenameSemantics(zip_file.basename)),
                            Tail(s))

\* the ZIP file kept for each timepoint and subject
Retained(d) ==
    UNION {{<<d[i][1], d[i][2][j][1], d[i][2][j][2][1]>> : j \in 1..Len(d[i][2])} :
              i \in 1..Len(d)}

\* C29: the ZIP file list_datasets of the MRI script keeps for a subject
\* and a timepoint is the one it keeps when os.listdir gives the same
\* files in any other order.
C29_OrderIndependent ==
    (job = "main" /\ job_status = "returned") =>
        \A s \in ListingsQuarantine :
            (/\ Len(s) = Len(job_args.path)
             /\ {s[i] : i \in 1..Len(s)}
                   = {job_args.path[i] : i \in 1..Len(job_args.path)})
            => Retained(MriListed(<<>>, s)) = Retained(datasets)

(***************************************************************************)
(* Properties of the independence of the records of a file                 *)
(***************************************************************************)
\* a row of a Psytools file is being read by the script h
RowStep(h) ==
    /\ handler = h
    /\ anon_status = "running"
    /\ n_done' = n_done + 1
    /\ rec_in' # <<>>

\* the row written and the exception raised are those of the same row read
\* first in the file, when no row has assigned the variable timestamp
AsFirstRow(res) ==
    /\ rec_out' = res.out
    /\ anon_status' = (IF res.raised = "no" THEN "running" ELSE res.raised)

\* C28: the output written for a record of a Psytools file depends only on
\* that record and the registry: after whatever preceding records, the row
\* written is the one written when the record is the first of the file.
C28_RecordAlone ==
    [][/\ RowStep("legacy") => AsFirstRow(LegacyBody(rec_in'[1], header, <<>>))
       /\ RowStep("psytools_csv") => AsFirstRow(CsvBody(rec_in'[1], header, <<>>))]_vars

(***************************************************************************)
(* Properties of the identifiers without a role suffix                     *)
(***************************************************************************)
\* the identifier of the row a Psytools script has just worked on, and the
\* identifier of the row it has written
UserCodeRead ==
    IF handler = "process_csv" THEN rec_in[1][1].s ELSE rec_in[1]["User code"].s

UserCodeWritten ==
    IF handler = "process_csv" THEN rec_out[1][1].s ELSE rec_out[1]["User code"].s

\* the row is not one of the id_check rows, which are left out
NotIdCheck ==
    IF handler = "process_csv" THEN ~ProcessCsvIdCheck(rec_in[1])
    ELSE ~Contains(rec_in[1]["Trial"].s, <<"i","d","_","c","h","e","c","k","_">>)

\* a Psytools script has just worked on a row whose identifier is a
\* registered internal code and nothing else
BareCodeRead ==
    /\ handler \in {"psytools_csv", "process_csv"}
    /\ rec_in # <<>>
    /\ NotIdCheck
    /\ DictHas(PSC2_FROM_PSC1, UserCodeRead)

\* the exception a row raises because of its timestamps
TimestampRaised == anon_status \in {"ValueError", "KeyError", "UnboundLocalError"}

\* C27: an identifier that is a registered internal code without a role
\* suffix is rewritten to the bare public code and its row is written: the
\* script does not raise on it and adds no separator and no suffix.
C27_BareCodeRewritten ==
    (BareCodeRead /\ ~TimestampRaised) =>
        /\ anon_status = "running"
        /\ rec_out # <<>>
        /\ UserCodeWritten = DictGet(PSC2_FROM_PSC1, UserCodeRead)

(***************************************************************************)
(* Properties of the check of the identifiers                              *)
(***************************************************************************)
\* psc1 without the suffix, when it ends with it
WithoutSuffix(psc1, suffix) ==
    IF EndsWith(psc1, suffix) THEN ButLast(psc1, Len(suffix)) ELSE psc1

\* _check_psc1 has been called with a timepoint suffix and an expected code
CheckedWithSuffixAndCode ==
    /\ call = "_check_psc1"
    /\ TruthyArg(call_args.suffix)
    /\ TruthyArg(call_args.psc1)

\* the identifier is a registered code of 12 digits followed by the suffix,
\* and the code is the expected one
ExactlyExpected ==
    \E code \in DictKeys(PSC2_FROM_PSC1) :
        /\ Len(code) = 12
        /\ IsDigits(code)
        /\ call_args.subject_id = code \o call_args.suffix[1]
        /\ code = WithoutSuffix(call_args.psc1[1], call_args.suffix[1])

\* C25: given a timepoint suffix and an expected code, _check_psc1 yields
\* no message if and only if the identifier is a registered 12-digit
\* internal code followed by that suffix and that code equals the expected
\* code stripped of the suffix.
C25_NoMessageIffExpected ==
    CheckedWithSuffixAndCode => ((call_result.messages = <<>>) <=> ExactlyExpected)

\* an identifier checked against an expected code that carries the suffix
\* passes, and another one does not
C25_Witness ==
    /\ CheckedWithSuffixAndCode
    /\ call_args.psc1[1] = CodeA \o FU3
    /\ call_args.suffix[1] = FU3
    /\ call_args.subject_id = CodeA \o FU3
    /\ call_result.messages = <<>>

(***************************************************************************)
(* Properties of the sequence of the trials                                *)
(***************************************************************************)
\* the numbers of the column of the trials, in the order of the rows
NumericValues(rows) ==
    LET numeric == SelectSeq(rows, LAMBDA row : IntOf(Strip(row[1])) # <<>>)
    IN  [i \in 1..Len(numeric) |-> IntOf(Strip(numeric[i][1]))[1]]

IsSuffixOf(s, t) ==
    Len(s) <= Len(t) /\ s = SubSeq(t, Len(t) - Len(s) + 1, Len(t))

Ascending(s, strictly) ==
    \A i \in 1..(Len(s) - 1) : IF strictly THEN s[i] < s[i + 1] ELSE s[i] <= s[i + 1]

BehavioralRead == call = "_read_generic_behavioral"

\* C26: the trials returned by the reader of the behavioural files are a
\* contiguous suffix of the numbers read in the column, strictly increasing
\* for MID, FT and RECOG and non-decreasing for SS, whatever the cells hold.
C26_LastAscendingRun ==
    BehavioralRead =>
        /\ IsSuffixOf(call_result.sequence, NumericValues(call_args.rows))
        /\ Ascending(call_result.sequence, StrictlyAscending(call_args.task))

(***************************************************************************)
(* Properties of the names of the folders of the tree                      *)
(***************************************************************************)
\* the folders of the tree made from the archive, the root left out
TreeDirectories == DOMAIN ziptree \ {<<>>}

\* C30: every folder of the tree made from an archive records its path from
\* the root of the archive, whatever the order of the entries and whether
\* or not the archive holds an entry for the folder.
C30_DirectoriesNamed ==
    \A d \in TreeDirectories : ziptree[d].filename = d

(***************************************************************************)
(* Properties of the parsing of the dates and the locale                   *)
(***************************************************************************)
\* one of the two _parse_csv_datetime has been called
DateParsed == call \in {"script", "library"}

\* what the function called returns for the same string in a process whose
\* locale is name
ResultIn(name) ==
    LET res == IF call = "script"
               THEN ScriptParseCsvDatetime(call_args.date_string, 1, name, installed)
               ELSE LibraryParseCsvDatetime(call_args.date_string, 1, name)
    IN  [value |-> res.value, raised |-> res.raised]

\* C24: the parsing of a date string neither depends on the locale of the
\* process nor changes it: the result is the same whatever locale is in
\* force before the call, and the locale in force after the call is the one
\* in force before it, on every exit path.
C24_LocaleUntouched ==
    DateParsed =>
        /\ locale = call_args.locale
        /\ \A name \in installed : ResultIn(name) = call_result

(***************************************************************************)
(* Specifications                                                          *)
(***************************************************************************)
AnonIdle ==
    /\ handler = "none"
    /\ header = {}
    /\ rec_in = <<>>
    /\ rec_out = <<>>
    /\ rec_log = <<>>
    /\ anon_status = "idle"
    /\ timestamp = <<>>
    /\ n_done = 0
    /\ pending = {}
    /\ written = <<>>

ClsIdle ==
    /\ cls_filename = <<>>
    /\ cls_exact = FALSE
    /\ cls_result = <<>>

ZipIdle ==
    /\ unit = "none"
    /\ zip_status = "idle"
    /\ zip_pc = "none"
    /\ zip_args = <<>>
    /\ ziptree = <<>>
    /\ zip_todo = <<>>
    /\ zip_dir = <<>>
    /\ zip_files = <<>>
    /\ error_list = <<>>
    /\ subject_ids = {}
    /\ actual_tests = {}
    /\ tempdirs = {}
    /\ extracted = <<>>

JobIdle ==
    /\ job = "none"
    /\ job_args = <<>>
    /\ job_status = "idle"
    /\ listing = <<>>
    /\ datasets = <<>>
    /\ todo_list = <<>>
    /\ results = <<>>
    /\ opened = {}

CallIdle ==
    /\ call = "none"
    /\ call_args = <<>>
    /\ call_result = <<>>

LocaleIdle ==
    /\ locale = "C"
    /\ installed = Locales

\* the import of core.py, up to the mapping dictionaries
InitRegistry == RegInit /\ DobInit /\ AnonIdle /\ ClsIdle /\ ZipIdle /\ LocaleIdle /\ CallIdle /\ JobIdle

NextRegistry ==
    \/ \E line \in RegLines : RegReadLine(line)
    \/ RegNextFile
    \/ RegReturn

SpecRegistry == InitRegistry /\ [][NextRegistry]_vars

\* the import of core.py, from the mapping dictionaries on
InitDob ==
    /\ \E lines \in RegistryChoices : RegistryLoadedFrom(lines)
    /\ DobInit /\ AnonIdle /\ ClsIdle /\ ZipIdle /\ LocaleIdle /\ CallIdle /\ JobIdle

NextDob ==
    \/ \E line \in DobLines : DobReadLine(line)
    \/ DobNextFile
    \/ DobReturn

SpecDob == InitDob /\ [][NextDob]_vars

\* calls of the filename classifier
InitClassify ==
    /\ RegInit /\ DobInit /\ AnonIdle /\ ZipIdle /\ LocaleIdle /\ CallIdle /\ JobIdle
    /\ cls_filename \in {<<f>> : f \in Filenames}
    /\ cls_exact \in BOOLEAN
    /\ cls_result = <<>>

NextClassify == Classify

SpecClassify == InitClassify /\ [][NextClassify]_vars

\* the de-identification scripts at work, the registry being loaded
InitAnon ==
    /\ \E tables \in AnonTables :
          RegistryLoadedFrom(tables[1]) /\ DobLoadedFrom(tables[2])
    /\ AnonIdle /\ ClsIdle /\ ZipIdle /\ LocaleIdle /\ CallIdle /\ JobIdle

NextAnon ==
    \/ AnonOpen("cleanup", {}, {}, "running")
    \/ \E psc1 \in Codes : \E cantab \in CantabFiles(psc1) : CleanupEntry(psc1, cantab)
    \/ CleanupWrite
    \/ AnonOpen("dawba", DAWBA_HEADER, {}, "running")
    \/ \E items \in DawbaLines : DawbaLine(items)
    \/ \E todo \in (SUBSET Codes) \ {{}} : OnsetsOpen(todo)
    \/ \E psc1 \in Codes, prefix \in OnsetsPrefixes :
          \E column \in OnsetsLines(psc1) : ProcessBehavioural(prefix, psc1, column)
    \/ \E cols \in Lsrc2Headers : AnonOpen("lsrc2", cols, {}, "running")
    \/ \E cols \in Lsrc2Headers : \E row \in Lsrc2Rows(cols) : Lsrc2Line(row)
    \/ \E fieldnames \in CsvHeaders : AnonOpen("psytools_csv", fieldnames, {}, "running")
    \/ \E fieldnames \in CsvHeaders : \E row \in CsvRows(fieldnames) : CsvLine(row)
    \/ \E fieldnames \in CsvHeaders : AnonOpen("process_csv", fieldnames, {}, "running")
    \/ \E fieldnames \in CsvHeaders : \E items \in ProcessCsvLines(fieldnames) :
          ProcessCsvLine(items)
    \/ \E fieldnames \in LegacyHeaders : AnonOpen("legacy", fieldnames, <<>>, "running")
    \/ \E fieldnames \in LegacyHeaders : \E row \in LegacyRows(fieldnames) :
          LegacyLine(row)
    \/ LegacyWrite
    \/ \E hdr \in DatasheetHeaders : ReadDatasheetOpen(hdr)
    \/ \E row \in DatasheetRows : ReadDatasheetRow(row)
    \/ ReadDatasheetReturn
    \/ AnonClose

SpecAnon == InitAnon /\ [][NextAnon]_vars

\* the archive validator and the MRI script at work, the registry being
\* loaded
InitZip ==
    /\ \E tables \in AnonTables :
          RegistryLoadedFrom(tables[1]) /\ DobLoadedFrom(tables[2])
    /\ AnonIdle /\ ClsIdle /\ ZipIdle /\ LocaleIdle /\ CallIdle /\ JobIdle

NextZip ==
    \/ \E archive \in Archives, timepoint \in Timepoints, psc1 \in ExpectedCodes,
          date \in Dates, expected \in ExpectedChoices :
          CheckZipContent(archive, timepoint, psc1, date, expected)
    \/ CheckUppermost
    \/ CheckAdditionalData
    \/ CheckScanningFile
    \/ CheckBehavioralFile
    \/ CheckScanningReturn
    \/ CheckImageData
    \/ CheckDicomFile
    \/ CheckImageDataUnread
    \/ CheckZiptreeReturn
    \/ \E dataset \in Datasets : Deidentify(dataset)
    \/ DeidentifyUnpack
    \/ DeidentifyReturn

SpecZip == InitZip /\ [][NextZip]_vars

\* the scripts that list datasets, with the tables loaded
InitBatch ==
    /\ \E tables \in AnonTables :
          RegistryLoadedFrom(tables[1]) /\ DobLoadedFrom(tables[2])
    /\ AnonIdle /\ ClsIdle /\ ZipIdle /\ LocaleIdle /\ CallIdle /\ JobIdle

NextBatch ==
    \/ DatasetBL
    \/ ListDatasetsBL
    \/ ListDatasetsBLReturn
    \/ \E timepoint \in {FU3, <<"S","B">>} : ProcessDatasets(timepoint)
    \/ ListDatasets
    \/ ListDatasetsReturn
    \/ MriMain
    \/ MriListDatasets
    \/ MriListDatasetsReturn
    \/ \E i \in 1..MaxDatasets : PoolStart(i)
    \/ \E i \in 1..MaxDatasets : PoolFinish(i)
    \/ PoolMapReturn
    \/ PoolMapRaise

SpecBatch == InitBatch /\ [][NextBatch]_vars

InitCalls ==
    /\ \E tables \in AnonTables :
          RegistryLoadedFrom(tables[1]) /\ DobLoadedFrom(tables[2])
    /\ AnonIdle /\ ClsIdle /\ ZipIdle /\ LocaleIdle /\ CallIdle /\ JobIdle

NextCalls ==
    \/ \E subject_id \in CheckedIdentifiers, suffix \in CheckedSuffixes,
          psc1 \in CheckedExpected : CheckPsc1Call(subject_id, suffix, psc1)
    \/ \E task \in {MID_CSV, FT_CSV, SS_CSV, RECOG_CSV} : ReadGenericBehavioralCall(task)
    \/ CallEnd

SpecCalls == InitCalls /\ [][NextCalls]_vars

\* the parsing of the dates of the datasheets in a process of any locale
InitLocale ==
    /\ \E tables \in AnonTables :
          RegistryLoadedFrom(tables[1]) /\ DobLoadedFrom(tables[2])
    /\ AnonIdle /\ ClsIdle /\ ZipIdle /\ CallIdle /\ JobIdle
    /\ installed \in {Locales, Locales \ {"en_GB.UTF-8"}}
    /\ locale \in installed

NextLocale ==
    \/ \E date_string \in DateStrings : ScriptParseCall(date_string)
    \/ \E date_string \in DateStrings : LibraryParseCall(date_string)
    \/ ParseEnd

SpecLocale == InitLocale /\ [][NextLocale]_vars

====
